---- MODULE Spec2Model ----
(***************************************************************************)
(* Model of the compliance scanner: analyzeUrl (scanner), its helpers      *)
(* (scanner-utils), the Bedrock client and the scan endpoint's failure     *)
(* responses.  Strings the code inspects character by character (URLs,     *)
(* hostnames) are sequences of one-character strings; error messages are   *)
(* sequences of text fragments.                                            *)
(***************************************************************************)
EXTENDS Integers, Sequences, FiniteSets, TLC

\* ------------------------------------------------------------------------
\* String helpers (JavaScript String.prototype semantics on char sequences)
\* ------------------------------------------------------------------------

\* s.startsWith(p)
StartsWith(s, p) ==
  /\ Len(p) <= Len(s)
  /\ SubSeq(s, 1, Len(p)) = p

\* positions at which p occurs in s
Occurrences(s, p) ==
  { i \in 1..(Len(s) - Len(p) + 1) : SubSeq(s, i, i + Len(p) - 1) = p }

\* s.includes(p)
Includes(s, p) == Occurrences(s, p) # {}

\* s.indexOf(p) : first position, 0 when absent
IndexOf(s, p) ==
  IF Occurrences(s, p) = {} THEN 0
  ELSE CHOOSE i \in Occurrences(s, p) : \A j \in Occurrences(s, p) : i <= j

\* s.replace(p, "") : removes the first occurrence only
ReplaceFirstWithEmpty(s, p) ==
  IF IndexOf(s, p) = 0 THEN s
  ELSE SubSeq(s, 1, IndexOf(s, p) - 1) \o SubSeq(s, IndexOf(s, p) + Len(p), Len(s))

RECURSIVE TrimLeft(_)
TrimLeft(s) == IF s # << >> /\ Head(s) = " " THEN TrimLeft(Tail(s)) ELSE s

RECURSIVE TrimRight(_)
TrimRight(s) ==
  IF s # << >> /\ s[Len(s)] = " " THEN TrimRight(SubSeq(s, 1, Len(s) - 1)) ELSE s

\* s.trim()
Trim(s) == TrimRight(TrimLeft(s))

UpperToLower ==
  [c \in {"A","B","C","D","E","F","G","H","I","J","K","L","M",
          "N","O","P","Q","R","S","T","U","V","W","X","Y","Z"} |->
     CASE c = "A" -> "a" [] c = "B" -> "b" [] c = "C" -> "c" [] c = "D" -> "d"
       [] c = "E" -> "e" [] c = "F" -> "f" [] c = "G" -> "g" [] c = "H" -> "h"
       [] c = "I" -> "i" [] c = "J" -> "j" [] c = "K" -> "k" [] c = "L" -> "l"
       [] c = "M" -> "m" [] c = "N" -> "n" [] c = "O" -> "o" [] c = "P" -> "p"
       [] c = "Q" -> "q" [] c = "R" -> "r" [] c = "S" -> "s" [] c = "T" -> "t"
       [] c = "U" -> "u" [] c = "V" -> "v" [] c = "W" -> "w" [] c = "X" -> "x"
       [] c = "Y" -> "y" [] c = "Z" -> "z"]

ToLowerCase(s) ==
  [i \in 1..Len(s) |-> IF s[i] \in DOMAIN UpperToLower THEN UpperToLower[s[i]] ELSE s[i]]

S_http == <<"h", "t", "t", "p", ":", "/", "/">>
S_https == <<"h", "t", "t", "p", "s", ":", "/", "/">>
S_www == <<"w", "w", "w", ".">>

\* ------------------------------------------------------------------------
\* new URL(...) for the two schemes analyzeUrl can produce
\* ------------------------------------------------------------------------

\* code points that make the host of an http(s) URL unparseable
ForbiddenHostCodePoints ==
  {" ", "#", "/", ":", "<", ">", "?", "@", "[", "\\", "]", "^", "|", "%"}

Digits == {"0", "1", "2", "3", "4", "5", "6", "7", "8", "9"}

\* the text after the scheme and its two slashes
AfterScheme(u) ==
  IF StartsWith(u, S_https) THEN SubSeq(u, Len(S_https) + 1, Len(u))
  ELSE SubSeq(u, Len(S_http) + 1, Len(u))

\* first position of a character of set cs in s, Len(s)+1 when none
FirstOf(s, cs) ==
  IF \E i \in 1..Len(s) : s[i] \in cs
  THEN CHOOSE i \in 1..Len(s) : s[i] \in cs /\ \A j \in 1..(i - 1) : s[j] \notin cs
  ELSE Len(s) + 1

\* host[:port], up to the first path, query or fragment delimiter
Authority(u) == SubSeq(AfterScheme(u), 1, FirstOf(AfterScheme(u), {"/", "?", "#", "\\"}) - 1)

HostPart(u) == SubSeq(Authority(u), 1, FirstOf(Authority(u), {":"}) - 1)

PortPart(u) == SubSeq(Authority(u), FirstOf(Authority(u), {":"}) + 1, Len(Authority(u)))

\* new URL(u) does not throw
UrlParses(u) ==
  /\ StartsWith(u, S_http) \/ StartsWith(u, S_https)
  /\ HostPart(u) # << >>
  /\ \A i \in 1..Len(HostPart(u)) : HostPart(u)[i] \notin ForbiddenHostCodePoints
  /\ \A i \in 1..Len(PortPart(u)) : PortPart(u)[i] \in Digits

\* new URL(u).hostname
Hostname(u) == ToLowerCase(HostPart(u))

\* new URL(u).protocol === 'https:'
IsHttps(u) == StartsWith(u, S_https)

\* ------------------------------------------------------------------------
\* Scan targets offered to analyzeUrl
\* ------------------------------------------------------------------------
T_example == <<"e", "x", "a", "m", "p", "l", "e", ".", "c", "o", "m">>
T_httpExample == <<"h", "t", "t", "p", ":", "/", "/", "e", "x", "a", "m", "p", "l", "e", ".", "c", "o", "m">>
T_google == <<"g", "o", "o", "g", "l", "e", ".", "c", "o", "m">>
T_googlePath == <<"h", "t", "t", "p", "s", ":", "/", "/", "g", "o", "o", "g", "l", "e", ".", "c", "o", "m", "/", "a", "n", "y", "t", "h", "i", "n", "g">>
T_wwwGoogle == <<"h", "t", "t", "p", "s", ":", "/", "/", "w", "w", "w", ".", "G", "o", "o", "g", "l", "e", ".", "c", "o", "m">>
T_sandbox == <<"s", "a", "n", "d", "b", "o", "x", ".", "c", "o", "m">>
T_bang == <<"h", "t", "!", "t", "p", ":", "/", "/", "b", "a", "d">>
T_space == <<"e", "x", "a", " ", "m", "p", "l", "e", ".", "c", "o", "m">>
T_padded == <<" ", "e", "x", "a", "m", "p", "l", "e", ".", "c", "o", "m", " ">>

Targets ==
  { T_example, T_httpExample, T_google, T_googlePath, T_wwwGoogle,
    T_sandbox, T_bang, T_space, T_padded }

\* Known compliant domains - bypass scanning for major companies
KNOWN_COMPLIANT_DOMAINS ==
  <<<<"g", "o", "o", "g", "l", "e", ".", "c", "o", "m">>,
    <<"a", "m", "a", "z", "o", "n", ".", "c", "o", "m">>,
    <<"m", "i", "c", "r", "o", "s", "o", "f", "t", ".", "c", "o", "m">>,
    <<"a", "p", "p", "l", "e", ".", "c", "o", "m">>,
    <<"m", "e", "t", "a", ".", "c", "o", "m">>,
    <<"f", "a", "c", "e", "b", "o", "o", "k", ".", "c", "o", "m">>,
    <<"s", "t", "r", "i", "p", "e", ".", "c", "o", "m">>,
    <<"s", "h", "o", "p", "i", "f", "y", ".", "c", "o", "m">>,
    <<"n", "o", "t", "i", "o", "n", ".", "s", "o">>,
    <<"f", "i", "g", "m", "a", ".", "c", "o", "m">>,
    <<"s", "l", "a", "c", "k", ".", "c", "o", "m">>,
    <<"z", "o", "o", "m", ".", "u", "s">>,
    <<"s", "a", "l", "e", "s", "f", "o", "r", "c", "e", ".", "c", "o", "m">>,
    <<"a", "d", "o", "b", "e", ".", "c", "o", "m">>,
    <<"n", "e", "t", "f", "l", "i", "x", ".", "c", "o", "m">>,
    <<"s", "p", "o", "t", "i", "f", "y", ".", "c", "o", "m">>,
    <<"g", "i", "t", "h", "u", "b", ".", "c", "o", "m">>,
    <<"g", "i", "t", "l", "a", "b", ".", "c", "o", "m">>,
    <<"a", "t", "l", "a", "s", "s", "i", "a", "n", ".", "n", "e", "t">>,
    <<"d", "r", "o", "p", "b", "o", "x", ".", "c", "o", "m">>,
    <<"b", "o", "x", ".", "c", "o", "m">>,
    <<"h", "u", "b", "s", "p", "o", "t", ".", "c", "o", "m">>,
    <<"m", "a", "i", "l", "c", "h", "i", "m", "p", ".", "c", "o", "m">>,
    <<"s", "q", "u", "a", "r", "e", "s", "p", "a", "c", "e", ".", "c", "o", "m">>,
    <<"w", "i", "x", ".", "c", "o", "m">>,
    <<"w", "o", "r", "d", "p", "r", "e", "s", "s", ".", "c", "o", "m">>,
    <<"c", "l", "o", "u", "d", "f", "l", "a", "r", "e", ".", "c", "o", "m">>,
    <<"a", "w", "s", ".", "a", "m", "a", "z", "o", "n", ".", "c", "o", "m">>,
    <<"a", "z", "u", "r", "e", ".", "m", "i", "c", "r", "o", "s", "o", "f", "t", ".", "c", "o", "m">>,
    <<"o", "r", "a", "c", "l", "e", ".", "c", "o", "m">>,
    <<"i", "b", "m", ".", "c", "o", "m">>,
    <<"p", "a", "y", "p", "a", "l", ".", "c", "o", "m">>,
    <<"s", "q", "u", "a", "r", "e", ".", "c", "o", "m">>,
    <<"c", "o", "m", "p", "l", "i", "a", "n", "c", "e", "s", "h", "i", "e", "l", "d", "h", "q", ".", "c", "o", "m">> >>

\* ------------------------------------------------------------------------
\* JavaScript values read from the parsed model output
\* ------------------------------------------------------------------------

JBool(b) == [t |-> "bool", b |-> b, n |-> 0]
JNum(n) == [t |-> "num", b |-> FALSE, n |-> n]
JUndef == [t |-> "undef", b |-> FALSE, n |-> 0]
\* a non-empty string, e.g. "yes"
JStr == [t |-> "str", b |-> FALSE, n |-> 0]

JTrue == JBool(TRUE)
JFalse == JBool(FALSE)

\* ToBoolean(v)
Truthy(v) ==
  CASE v.t = "bool" -> v.b
    [] v.t = "num" -> v.n # 0
    [] v.t = "str" -> TRUE
    [] OTHER -> FALSE

\* a || b
JsOr(a, b) == IF Truthy(a) THEN a ELSE b

\* a && b
JsAnd(a, b) == IF Truthy(a) THEN b ELSE a

\* !a
JsNot(a) == JBool(~Truthy(a))

\* ToNumber(v) for the values riskScore can hold
ToNumber(v) == IF v.t = "bool" THEN (IF v.b THEN 1 ELSE 0) ELSE v.n

\* Math.min(a, b)
MathMin(a, b) == IF a < b THEN a ELSE b

\* ------------------------------------------------------------------------
\* scanner-utils: analyzeSecurityHeaders
\* ------------------------------------------------------------------------

HeaderNames ==
  { "content-security-policy", "content-security-policy-report-only",
    "x-frame-options", "strict-transport-security", "x-content-type-options" }

\* responses of the HEAD request: the set of header names present, or a failure
HeaderResponses ==
  { [ok |-> TRUE, headers |-> {}],
    [ok |-> TRUE, headers |-> {"content-security-policy-report-only"}],
    [ok |-> TRUE, headers |-> {"content-security-policy", "x-frame-options"}],
    [ok |-> TRUE, headers |-> {"x-frame-options", "strict-transport-security",
                               "x-content-type-options"}],
    [ok |-> TRUE, headers |-> HeaderNames],
    [ok |-> FALSE, headers |-> {}] }

\* variant: the content security policy weighs 40, the other headers 20 each
HeaderScoreWeighted(csp, xfo, hsts, xcto) ==
  (IF csp THEN 40 ELSE 0) + (IF xfo THEN 20 ELSE 0)
    + (IF hsts THEN 20 ELSE 0) + (IF xcto THEN 20 ELSE 0)

HeaderScore(csp, xfo, hsts, xcto) ==
  (IF csp THEN 25 ELSE 0) + (IF xfo THEN 25 ELSE 0)
    + (IF hsts THEN 25 ELSE 0) + (IF xcto THEN 25 ELSE 0)

\* variant: a failed header fetch is reported as if every header were present
analyzeSecurityHeadersAssumePresent(resp) ==
  IF resp.ok
  THEN LET hasCSP == "content-security-policy" \in resp.headers
                       \/ "content-security-policy-report-only" \in resp.headers
           hasXFrameOptions == "x-frame-options" \in resp.headers
           hasHSTS == "strict-transport-security" \in resp.headers
           hasXContentTypeOptions == "x-content-type-options" \in resp.headers
       IN [present |-> TRUE, hasCSP |-> hasCSP, hasXFrameOptions |-> hasXFrameOptions,
           hasHSTS |-> hasHSTS, hasXContentTypeOptions |-> hasXContentTypeOptions,
           score |-> HeaderScore(hasCSP, hasXFrameOptions, hasHSTS, hasXContentTypeOptions)]
  ELSE [present |-> TRUE, hasCSP |-> TRUE, hasXFrameOptions |-> TRUE,
        hasHSTS |-> TRUE, hasXContentTypeOptions |-> TRUE, score |-> 100]

analyzeSecurityHeaders(resp) ==
  IF resp.ok
  THEN LET hasCSP == "content-security-policy" \in resp.headers
                       \/ "content-security-policy-report-only" \in resp.headers
           hasXFrameOptions == "x-frame-options" \in resp.headers
           hasHSTS == "strict-transport-security" \in resp.headers
           hasXContentTypeOptions == "x-content-type-options" \in resp.headers
       IN [present |-> TRUE, hasCSP |-> hasCSP, hasXFrameOptions |-> hasXFrameOptions,
           hasHSTS |-> hasHSTS, hasXContentTypeOptions |-> hasXContentTypeOptions,
           score |-> HeaderScore(hasCSP, hasXFrameOptions, hasHSTS, hasXContentTypeOptions)]
  ELSE [present |-> TRUE, hasCSP |-> FALSE, hasXFrameOptions |-> FALSE,
        hasHSTS |-> FALSE, hasXContentTypeOptions |-> FALSE, score |-> 0]

NoSecurityHeaders ==
  [present |-> FALSE, hasCSP |-> FALSE, hasXFrameOptions |-> FALSE,
   hasHSTS |-> FALSE, hasXContentTypeOptions |-> FALSE, score |-> 0]

\* ------------------------------------------------------------------------
\* scanner-utils: analyzeThirdPartyScripts
\* Markup is represented by the tracker signatures it contains and by
\* whether it references a resource over http://; page text by the
\* disclosure phrases it contains.
\* ------------------------------------------------------------------------

\* the regex catalog, in source order: <<name, signatures matched by the pattern>>
trackers ==
  << <<"Google Tag Manager", {"googletagmanager.com"}>>,
     <<"Mixpanel", {"mixpanel.com"}>>,
     <<"Segment", {"segment.com", "segment.io"}>>,
     <<"Amplitude", {"amplitude.com"}>>,
     <<"Heap Analytics", {"heapanalytics.com"}>>,
     <<"FullStory", {"fullstory.com"}>>,
     <<"Crazy Egg", {"crazyegg.com"}>>,
     <<"Kissmetrics", {"kissmetrics.com"}>>,
     <<"Hubspot", {"hubspot.com"}>>,
     <<"Drift", {"drift.com"}>>,
     <<"Zendesk", {"zendesk.com"}>>,
     <<"LiveChat", {"livechatinc.com"}>>,
     <<"Olark", {"olark.com"}>> >>

\* the four major trackers pushed after the catalog: <<name, signatures>>
majorTrackers ==
  << <<"Google Analytics", {"google-analytics.com", "gtag.js", "ga.js"}>>,
     <<"Facebook Pixel", {"facebook.net/en_us/fbevents.js", "connect.facebook.net"}>>,
     <<"Hotjar", {"hotjar.com", "static.hotjar.com"}>>,
     <<"Intercom", {"intercom.io", "widget.intercom.io"}>> >>

DisclosurePhrases == {"google analytics", "facebook pixel", "tracking", "third-party"}

RECURSIVE CatalogMatches(_, _)
CatalogMatches(sigs, i) ==
  IF i > Len(trackers) THEN << >>
  ELSE (IF trackers[i][2] \cap sigs # {} THEN <<trackers[i][1]>> ELSE << >>)
         \o CatalogMatches(sigs, i + 1)

RECURSIVE MajorMatches(_, _)
MajorMatches(sigs, i) ==
  IF i > Len(majorTrackers) THEN << >>
  ELSE (IF majorTrackers[i][2] \cap sigs # {} THEN <<majorTrackers[i][1]>> ELSE << >>)
         \o MajorMatches(sigs, i + 1)

\* [...new Set(a)] : keeps the first occurrence of each element
RECURSIVE Dedupe(_)
Dedupe(a) ==
  IF a = << >> THEN << >>
  ELSE LET init == Dedupe(SubSeq(a, 1, Len(a) - 1))
           last == a[Len(a)]
       IN IF \E i \in 1..Len(init) : init[i] = last THEN init ELSE Append(init, last)

analyzeThirdPartyScripts(html, content) ==
  [present |-> TRUE,
   googleAnalytics |-> majorTrackers[1][2] \cap html.sigs # {},
   facebookPixel |-> majorTrackers[2][2] \cap html.sigs # {},
   hotjar |-> majorTrackers[3][2] \cap html.sigs # {},
   intercom |-> majorTrackers[4][2] \cap html.sigs # {},
   other |-> Dedupe(CatalogMatches(html.sigs, 1) \o MajorMatches(html.sigs, 1)),
   privacyPolicyMentions |-> content.phrases \cap DisclosurePhrases # {}]

NoThirdPartyScripts ==
  [present |-> FALSE, googleAnalytics |-> FALSE, facebookPixel |-> FALSE,
   hotjar |-> FALSE, intercom |-> FALSE, other |-> << >>,
   privacyPolicyMentions |-> FALSE]

\* ------------------------------------------------------------------------
\* scanner-utils: validateSSL
\* ------------------------------------------------------------------------

\* outcomes of the HEAD probe over http:// : a status, or 0 for no connection
ProbeOutcomes == {301, 308, 302, 200, 0}

\* variant: any answer to the probe other than a plain 200 counts as enforcement
validateSSLAnyRedirect(url, html, probe) ==
  IF UrlParses(url)
  THEN LET hasSSL == IsHttps(url)
           mixedContent == hasSSL /\ html.insecureRefs
           httpsEnforced == IF hasSSL THEN probe # 200 ELSE FALSE
       IN [present |-> TRUE, hasSSL |-> hasSSL, httpsEnforced |-> httpsEnforced,
           certificateValid |-> hasSSL, mixedContent |-> mixedContent]
  ELSE [present |-> TRUE, hasSSL |-> FALSE, httpsEnforced |-> FALSE,
        certificateValid |-> FALSE, mixedContent |-> FALSE]

validateSSL(url, html, probe) ==
  IF UrlParses(url)
  THEN LET hasSSL == IsHttps(url)
           mixedContent == hasSSL /\ html.insecureRefs
           httpsEnforced == IF hasSSL
                            THEN (IF probe = 0 THEN TRUE ELSE probe = 301 \/ probe = 308)
                            ELSE FALSE
       IN [present |-> TRUE, hasSSL |-> hasSSL, httpsEnforced |-> httpsEnforced,
           certificateValid |-> hasSSL, mixedContent |-> mixedContent]
  ELSE [present |-> TRUE, hasSSL |-> FALSE, httpsEnforced |-> FALSE,
        certificateValid |-> FALSE, mixedContent |-> FALSE]

NoSslValidation ==
  [present |-> FALSE, hasSSL |-> FALSE, httpsEnforced |-> FALSE,
   certificateValid |-> FALSE, mixedContent |-> FALSE]

\* ------------------------------------------------------------------------
\* scanner-utils: determineCureEligibility
\* ------------------------------------------------------------------------

hasCurableViolations(analysis) ==
  JsOr(JsOr(JsOr(JsAnd(analysis.hasAiFeatures, JsNot(analysis.hasAiDisclosure)),
                 JsNot(analysis.hasPrivacyPolicy)),
            JsNot(analysis.hasCookieBanner)),
       analysis.adaIssues)

\* variant: only the "critical" tier of PII exposure blocks the cure notice
hasNonCurableViolationsCriticalOnly(analysis) ==
  JsOr(JsOr(analysis.socialScoring, analysis.discrimination),
       JBool(analysis.piiSeverity = "critical"))

hasNonCurableViolations(analysis) ==
  JsOr(JsOr(analysis.socialScoring, analysis.discrimination),
       JBool(analysis.piiSeverity = "critical" \/ analysis.piiSeverity = "high"))

determineCureEligibility(analysis) ==
  JsAnd(hasCurableViolations(analysis), JsNot(hasNonCurableViolations(analysis)))

\* ------------------------------------------------------------------------
\* Error messages: sequences of text fragments, and the marker substrings
\* the catch block of analyzeUrl searches them for
\* ------------------------------------------------------------------------

MarkersIn(fragment) ==
  CASE fragment = "Firecrawl API error: " -> {"Firecrawl"}
    [] fragment = "400" -> {"400"}
    [] fragment = "401" -> {}
    [] fragment = "403" -> {"403"}
    [] fragment = "404" -> {"404"}
    [] fragment = "429" -> {"429"}
    [] fragment = "500" -> {}
    [] fragment = "503" -> {}
    [] fragment = "Not Found" -> {"Not Found"}
    [] fragment = "Bad Request" -> {"Bad Request"}
    [] fragment = "AWS Access Denied (403): Check IAM permissions for bedrock:InvokeModel. Error: "
         -> {"Access Denied", "403"}
    [] fragment = "Model Not Found (404): Claude 3.7 Sonnet may not be enabled in the region. Enable it in AWS Bedrock Console. Error: "
         -> {"Not Found", "404"}
    [] fragment = "Rate Limited (429): Too many requests. Wait and retry. Error: "
         -> {"429"}
    [] fragment = "Bad Request (400): Invalid model ID or request format. Error: "
         -> {"Bad Request", "400"}
    [] fragment = "ThrottlingException: Too many requests" -> {"Throttl"}
    [] fragment = "Could not resolve arn:aws:bedrock:us-east-1:140312345678:inference-profile/us.anthropic.claude-3-7-sonnet-20250219-v1:0"
         -> {"403"}
    [] OTHER -> {}

\* message.includes(marker)
MsgIncludes(msg, marker) == \E i \in 1..Len(msg) : marker \in MarkersIn(msg[i])

\* String(status)
StatusText(status) ==
  CASE status = 400 -> "400" [] status = 401 -> "401" [] status = 403 -> "403"
    [] status = 404 -> "404" [] status = 429 -> "429" [] status = 500 -> "500"
    [] status = 503 -> "503"

\* body text of a non-success response
ErrorBody(status) ==
  CASE status = 400 -> "Bad Request"
    [] status = 401 -> "Unauthorized: Invalid token"
    [] status = 403 -> "Forbidden"
    [] status = 404 -> "Not Found"
    [] status = 429 -> "ThrottlingException: Too many requests"
    [] status = 500 -> "Internal Server Error"
    [] status = 503 -> "Service Unavailable"

NoMessage == << >>

\* ------------------------------------------------------------------------
\* bedrock-client: invokeClaudeSonnet
\* ------------------------------------------------------------------------

HttpErrorStatuses == {400, 401, 403, 404, 429, 500, 503}

\* a detail text that names a resource of the account 140312345678
ArnDetail ==
  "Could not resolve arn:aws:bedrock:us-east-1:140312345678:inference-profile/us.anthropic.claude-3-7-sonnet-20250219-v1:0"

\* errorDetails.message || errorText of a non-success response with this status
ErrorDetails(status) == {ErrorBody(status), ArnDetail}

\* the Error thrown for a non-success response
BedrockErrorMessage(status, detail) ==
  CASE status = 403 ->
         <<"AWS Access Denied (403): Check IAM permissions for bedrock:InvokeModel. Error: ",
           detail>>
    [] status = 404 ->
         <<"Model Not Found (404): Claude 3.7 Sonnet may not be enabled in the region. Enable it in AWS Bedrock Console. Error: ",
           detail>>
    [] status = 429 ->
         <<"Rate Limited (429): Too many requests. Wait and retry. Error: ", detail>>
    [] status = 400 ->
         <<"Bad Request (400): Invalid model ID or request format. Error: ", detail>>
    [] OTHER ->
         <<"Bedrock API error (", StatusText(status), "): ", detail>>

\* outcome of invokeClaudeSonnet for a service response:
\* the returned text, or the message of the Error it throws
invokeClaudeSonnet(resp) ==
  CASE resp.kind = "network" -> [threw |-> TRUE, message |-> <<"fetch failed">>]
    [] resp.kind = "http" -> [threw |-> TRUE, message |-> BedrockErrorMessage(resp.status, resp.detail)]
    [] resp.kind = "notext" ->
         [threw |-> TRUE, message |-> <<"No text content in Bedrock Converse response">>]
    [] OTHER -> [threw |-> FALSE, message |-> NoMessage]

\* ------------------------------------------------------------------------
\* Text returned by the model, as JSON.parse sees it
\* ------------------------------------------------------------------------

\* the proposed base ranges from MaxBelow under 0 to MaxBase
MaxBelow == 20
MaxBase == 130

\* base risk scores proposed by the model
BaseScores == {-MaxBelow, -1, 0, 1, 50, 75, 90, 100, MaxBase}

NoIssues == [present |-> FALSE, items |-> << >>]
SomeIssues == [present |-> TRUE, items |-> << <<"No cookie consent banner detected">> >>]

\* a parsed object; a key the object lacks reads as undefined
AnalysisOf(cb, pp, ai, disc, social, discr, ada, score, issues, sev) ==
  [hasCookieBanner |-> cb, hasPrivacyPolicy |-> pp, hasAiFeatures |-> ai,
   hasAiDisclosure |-> disc, hasBiometricConsent |-> JFalse,
   socialScoring |-> social, discrimination |-> discr, adaIssues |-> ada,
   trustSignals |-> JFalse, riskScore |-> score, issues |-> issues,
   piiSeverity |-> sev,
   aiRetentionIssues |-> JUndef, gdprIssues |-> JUndef, shadowAiIssues |-> JUndef,
   cureNoticeEligible |-> JUndef]

JBooleans == {JTrue, JFalse}

\* the object {} : every key reads as undefined
EmptyObject ==
  [AnalysisOf(JUndef, JUndef, JUndef, JUndef, JUndef, JUndef, JUndef, JUndef,
              NoIssues, "absent")
     EXCEPT !.hasBiometricConsent = JUndef, !.trustSignals = JUndef]

\* a complete, well-typed object reporting no problem
CleanObject ==
  AnalysisOf(JTrue, JTrue, JFalse, JFalse, JFalse, JFalse, JFalse, JNum(50),
             SomeIssues, "absent")

BooleanKeys ==
  {"hasCookieBanner", "hasPrivacyPolicy", "hasAiFeatures", "hasAiDisclosure",
   "hasBiometricConsent", "socialScoring", "discrimination", "adaIssues",
   "trustSignals"}

\* well-typed objects: every combination of the seven booleans the code reads
TruthTableObjects ==
  { AnalysisOf(cb, pp, ai, disc, social, discr, ada, JNum(40), SomeIssues, "absent") :
      cb \in JBooleans, pp \in JBooleans, ai \in JBooleans, disc \in JBooleans,
      social \in JBooleans, discr \in JBooleans, ada \in JBooleans }

\* objects that carry a piiExposure.severity
PiiObjects ==
  { AnalysisOf(JTrue, JTrue, JFalse, JFalse, social, discr, ada, JNum(40), SomeIssues, sev) :
      social \in JBooleans, discr \in JBooleans, ada \in JBooleans,
      sev \in {"low", "medium", "high", "critical"} }

\* objects that differ in the proposed base score only
BaseScoreObjects ==
  { [CleanObject EXCEPT !.riskScore = JNum(b)] : b \in BaseScores }

\* objects with one required key missing, or of the wrong type
DefectiveObjects ==
  { [CleanObject EXCEPT ![k] = JUndef] : k \in BooleanKeys }
    \cup { [CleanObject EXCEPT ![k] = JStr] : k \in {"hasCookieBanner", "hasAiFeatures", "adaIssues"} }
    \cup { [CleanObject EXCEPT !.riskScore = JUndef],
           [CleanObject EXCEPT !.riskScore = JTrue],
           [CleanObject EXCEPT !.issues = NoIssues],
           EmptyObject }

\* objects in which the model states the derived flags itself
DirectFlagObjects ==
  { [CleanObject EXCEPT !.aiRetentionIssues = JTrue, !.gdprIssues = JTrue,
                        !.shadowAiIssues = JTrue, !.cureNoticeEligible = JTrue],
    [AnalysisOf(JFalse, JFalse, JTrue, JFalse, JFalse, JFalse, JTrue, JNum(80),
                SomeIssues, "absent")
       EXCEPT !.aiRetentionIssues = JFalse, !.gdprIssues = JFalse,
              !.shadowAiIssues = JFalse, !.cureNoticeEligible = JFalse] }

ModelObjects ==
  TruthTableObjects \cup PiiObjects \cup BaseScoreObjects \cup DefectiveObjects
    \cup DirectFlagObjects

\* json: "invalid" (JSON.parse throws: prose, fenced or truncated JSON),
\*       "null" (the literal null), "scalar" (a number, string, boolean or
\*       array: valid JSON that is not an object), "object"
ModelTexts ==
  { [json |-> "invalid", analysis |-> EmptyObject],
    [json |-> "null", analysis |-> EmptyObject],
    [json |-> "scalar", analysis |-> EmptyObject] }
    \cup { [json |-> "object", analysis |-> a] : a \in ModelObjects }

\* responses of the text-generation service
NoModelText == [json |-> "invalid", analysis |-> EmptyObject]

BedrockResponses ==
  { [kind |-> "network", status |-> 0, detail |-> "", text |-> NoModelText],
    [kind |-> "notext", status |-> 200, detail |-> "", text |-> NoModelText] }
    \cup UNION { { [kind |-> "http", status |-> st, detail |-> d, text |-> NoModelText] :
                      d \in ErrorDetails(st) } : st \in HttpErrorStatuses }
    \cup { [kind |-> "text", status |-> 200, detail |-> "", text |-> t] : t \in ModelTexts }

\* JSON.parse(text): the parsed value, or the message of the SyntaxError
JsonParse(text) ==
  IF text.json = "invalid"
  THEN [threw |-> TRUE, isNull |-> FALSE, value |-> EmptyObject,
        message |-> <<"Unexpected token in JSON at position 0">>]
  ELSE [threw |-> FALSE, isNull |-> text.json = "null", value |-> text.analysis,
        message |-> NoMessage]

\* ------------------------------------------------------------------------
\* Responses of the content fetcher
\* ------------------------------------------------------------------------

AllSignatures ==
  UNION { trackers[i][2] : i \in 1..Len(trackers) }
    \cup UNION { majorTrackers[i][2] : i \in 1..Len(majorTrackers) }

\* signatures of the first n catalog entries
FirstSignatures(n) == UNION { trackers[i][2] : i \in 1..n }

HtmlSamples ==
  { [sigs |-> sg, insecureRefs |-> ir] :
      sg \in { {}, FirstSignatures(5), FirstSignatures(6), AllSignatures },
      ir \in BOOLEAN }

ContentSamples == { [phrases |-> {}], [phrases |-> {"tracking"}] }

NoScrapeData ==
  [markdown |-> FALSE, content |-> [phrases |-> {}], html |-> [sigs |-> {}, insecureRefs |-> FALSE]]

\* kind: "network" (fetch throws), "http" (non-success status),
\*       "ok" (a JSON body, with or without data.markdown)
ScrapeResponses ==
  { [kind |-> "network", status |-> 0, data |-> NoScrapeData] }
    \cup { [kind |-> "http", status |-> st, data |-> NoScrapeData] : st \in HttpErrorStatuses }
    \cup { [kind |-> "ok", status |-> 200, data |-> NoScrapeData] }
    \cup { [kind |-> "ok", status |-> 200,
            data |-> [markdown |-> TRUE, content |-> ct, html |-> h]] :
             ct \in ContentSamples, h \in HtmlSamples }

FirecrawlErrorMessage(resp) ==
  CASE resp.kind = "network" -> <<"fetch failed">>
    [] resp.kind = "http" ->
         <<"Firecrawl API error: ", StatusText(resp.status), " - ", ErrorBody(resp.status)>>
    [] OTHER -> <<"Failed to scrape content - no markdown returned">>

\* ------------------------------------------------------------------------
\* scanner: the records analyzeUrl returns
\* ------------------------------------------------------------------------

NoPiiExposure == [present |-> FALSE, detected |-> FALSE, severity |-> "low"]

NoScanData ==
  [kind |-> "none", errorType |-> "", errorMessage |-> NoMessage, fullError |-> NoMessage,
   url |-> << >>, domain |-> << >>, analysis |-> EmptyObject,
   timestamp |-> [present |-> FALSE, at |-> 0]]

NoResult ==
  [success |-> FALSE, riskScore |-> 0,
   hasCookieBanner |-> JFalse, hasPrivacyPolicy |-> JFalse,
   hasAiFeatures |-> JFalse, hasAiDisclosure |-> JFalse,
   adaIssues |-> JFalse, aiRetentionIssues |-> JFalse,
   gdprIssues |-> JFalse, shadowAiIssues |-> JFalse,
   detectedIssues |-> << >>, scanData |-> NoScanData,
   securityHeaders |-> NoSecurityHeaders, thirdPartyScripts |-> NoThirdPartyScripts,
   sslValidation |-> NoSslValidation, piiExposure |-> NoPiiExposure,
   cureNoticeEligible |-> JUndef]

\* the literal every failure return shares; the returns differ in
\* detectedIssues and scanData only
FailedResult(issues, data) ==
  [NoResult EXCEPT !.success = FALSE, !.riskScore = 0,
                   !.adaIssues = JFalse, !.aiRetentionIssues = JFalse,
                   !.gdprIssues = JFalse, !.shadowAiIssues = JFalse,
                   !.detectedIssues = issues, !.scanData = data]

MissingFirecrawlKeyResult(u) ==
  FailedResult(<< <<"TECHNICAL ERROR: FIRECRAWL_API_KEY not configured">>,
                  <<"Add your Firecrawl API key in Settings -> Secrets">>,
                  <<"Get API key from https://firecrawl.dev">> >>,
               [NoScanData EXCEPT !.kind = "error", !.errorType = "MissingConfig",
                                  !.errorMessage = <<"FIRECRAWL_API_KEY not configured">>,
                                  !.url = u])

MissingBedrockConfigResult(u) ==
  FailedResult(<< <<"TECHNICAL ERROR: AWS Bedrock credentials not configured">>,
                  <<"Add AWS_ACCESS_KEY_ID, AWS_SECRET_ACCESS_KEY, and AWS_REGION in Settings -> Secrets">>,
                  <<"Enable Claude 3.7 Sonnet in AWS Bedrock Console (us-east-1)">> >>,
               [NoScanData EXCEPT !.kind = "error", !.errorType = "MissingCredentials",
                                  !.errorMessage = <<"AWS Bedrock not configured">>,
                                  !.url = u])

InvalidUrlResult ==
  FailedResult(<< <<"Invalid URL format">> >>,
               [NoScanData EXCEPT !.kind = "invalid", !.errorMessage = <<"Invalid URL">>])

\* the branch chain of the catch block: the message shown for a caught error
userFriendlyError(message) ==
  LET m == IF message = NoMessage THEN <<"Unknown error">> ELSE message
  IN CASE MsgIncludes(m, "Access Denied") \/ MsgIncludes(m, "403") ->
            <<"AWS Access Denied - Check IAM permissions for bedrock:InvokeModel">>
       [] MsgIncludes(m, "404") \/ MsgIncludes(m, "Not Found") ->
            <<"Model not found - Enable Claude 3.7 Sonnet in AWS Bedrock Console">>
       [] MsgIncludes(m, "429") \/ MsgIncludes(m, "Throttl") ->
            <<"AWS rate limit exceeded - Wait a moment and retry">>
       [] MsgIncludes(m, "400") \/ MsgIncludes(m, "Bad Request") ->
            <<"Invalid request format - Check model ID and region">>
       [] MsgIncludes(message, "Firecrawl") ->
            <<"Website scraping failed - Check FIRECRAWL_API_KEY">>
       [] OTHER -> m

TechnicalErrorNote ==
  <<"This is a technical error, not a compliance issue with the target site.">>

\* the return of the catch block
CaughtResult(u, message) ==
  FailedResult(<< <<"Scan failed: ">> \o userFriendlyError(message), TechnicalErrorNote >>,
               [NoScanData EXCEPT !.kind = "error",
                                  !.errorMessage = userFriendlyError(message),
                                  !.fullError = message, !.url = u])

\* variant: the time of the scan also enters the risk score
StampedScoreDrift(r, now) ==
  [r EXCEPT !.scanData.timestamp = [present |-> TRUE, at |-> now],
            !.riskScore = r.riskScore + now]

\* timestamp / scannedAt: new Date().toISOString(), an instant being modelled
\* by its number
Stamped(r, now) == [r EXCEPT !.scanData.timestamp = [present |-> TRUE, at |-> now]]

\* variant: the catch block logs and rethrows
CatchOutcomeRethrow(u, message) == [pc |-> "raised", result |-> NoResult]

\* what the catch block of analyzeUrl hands to the caller
CatchOutcome(u, message) == [pc |-> "done", result |-> CaughtResult(u, message)]

\* KNOWN_COMPLIANT_DOMAINS.some((d) => domain.includes(d))
isKnownCompliant(domain) ==
  \E i \in 1..Len(KNOWN_COMPLIANT_DOMAINS) : Includes(domain, KNOWN_COMPLIANT_DOMAINS[i])

\* new URL(normalizedUrl).hostname.replace("www.", "")
DomainOf(u) == ReplaceFirstWithEmpty(Hostname(u), S_www)

\* variant: the baseline is the moderate default score instead of 15
KnownCompliantResultModerate(domain, nu) ==
  [NoResult EXCEPT
     !.success = TRUE, !.riskScore = 50,
     !.hasCookieBanner = JTrue, !.hasPrivacyPolicy = JTrue,
     !.detectedIssues = << >>,
     !.scanData = [NoScanData EXCEPT !.kind = "baseline", !.domain = domain, !.url = nu],
     !.securityHeaders = [present |-> TRUE, hasCSP |-> TRUE, hasXFrameOptions |-> TRUE,
                          hasHSTS |-> TRUE, hasXContentTypeOptions |-> TRUE, score |-> 100],
     !.sslValidation = [present |-> TRUE, hasSSL |-> TRUE, httpsEnforced |-> TRUE,
                        certificateValid |-> TRUE, mixedContent |-> FALSE],
     !.cureNoticeEligible = JFalse]

KnownCompliantResult(domain, nu) ==
  [NoResult EXCEPT
     !.success = TRUE, !.riskScore = 15,
     !.hasCookieBanner = JTrue, !.hasPrivacyPolicy = JTrue,
     !.hasAiFeatures = JFalse, !.hasAiDisclosure = JFalse,
     !.adaIssues = JFalse, !.aiRetentionIssues = JFalse,
     !.gdprIssues = JFalse, !.shadowAiIssues = JFalse,
     !.detectedIssues = << >>,
     !.scanData = [NoScanData EXCEPT !.kind = "baseline", !.domain = domain, !.url = nu],
     !.securityHeaders = [present |-> TRUE, hasCSP |-> TRUE, hasXFrameOptions |-> TRUE,
                          hasHSTS |-> TRUE, hasXContentTypeOptions |-> TRUE, score |-> 100],
     !.sslValidation = [present |-> TRUE, hasSSL |-> TRUE, httpsEnforced |-> TRUE,
                        certificateValid |-> TRUE, mixedContent |-> FALSE],
     !.cureNoticeEligible = JFalse]

\* normalizedUrl after trimming and defaulting the scheme
NormalizeUrl(u) ==
  LET t == Trim(u)
  IN IF ~StartsWith(t, S_http) /\ ~StartsWith(t, S_https) THEN S_https \o t ELSE t

\* the additive adjustments of the risk score
RiskAdjustment(sec, scripts, ssl) ==
  (IF ~ssl.hasSSL THEN 15 ELSE 0)
    + (IF ssl.mixedContent THEN 10 ELSE 0)
    + (IF sec.score < 50 THEN 10 ELSE 0)
    + (IF Len(scripts.other) > 5 /\ ~scripts.privacyPolicyMentions THEN 10 ELSE 0)

\* let riskScore = analysis.riskScore || 50; ...; Math.min(riskScore, 100)
RiskScore(analysis, sec, scripts, ssl) ==
  MathMin(ToNumber(JsOr(analysis.riskScore, JNum(50))) + RiskAdjustment(sec, scripts, ssl), 100)

\* variant: a derived flag the model states itself is taken from the model
DerivedFlagsTrustingModel(analysis) ==
  [adaIssues |-> JsOr(analysis.adaIssues, JFalse),
   aiRetentionIssues |->
     IF analysis.aiRetentionIssues.t = "bool" THEN analysis.aiRetentionIssues
     ELSE JsAnd(analysis.hasAiFeatures, JsNot(analysis.hasPrivacyPolicy)),
   gdprIssues |->
     IF analysis.gdprIssues.t = "bool" THEN analysis.gdprIssues
     ELSE JsOr(JsNot(analysis.hasCookieBanner), JsNot(analysis.hasPrivacyPolicy)),
   shadowAiIssues |->
     IF analysis.shadowAiIssues.t = "bool" THEN analysis.shadowAiIssues
     ELSE JsAnd(analysis.hasAiFeatures, JsNot(analysis.hasAiDisclosure))]

\* the four framework-issue flags
DerivedFlags(analysis) ==
  [adaIssues |-> JsOr(analysis.adaIssues, JFalse),
   aiRetentionIssues |-> JsAnd(analysis.hasAiFeatures, JsNot(analysis.hasPrivacyPolicy)),
   gdprIssues |-> JsOr(JsNot(analysis.hasCookieBanner), JsNot(analysis.hasPrivacyPolicy)),
   shadowAiIssues |-> JsAnd(analysis.hasAiFeatures, JsNot(analysis.hasAiDisclosure))]

\* the result compiled after a parsed model answer
CompiledResult(analysis, nu, sec, scripts, ssl) ==
  [NoResult EXCEPT
     !.success = TRUE,
     !.riskScore = RiskScore(analysis, sec, scripts, ssl),
     !.hasCookieBanner = JsOr(analysis.hasCookieBanner, JFalse),
     !.hasPrivacyPolicy = JsOr(analysis.hasPrivacyPolicy, JFalse),
     !.hasAiFeatures = JsOr(analysis.hasAiFeatures, JFalse),
     !.hasAiDisclosure = JsOr(analysis.hasAiDisclosure, JFalse),
     !.adaIssues = DerivedFlags(analysis).adaIssues,
     !.aiRetentionIssues = DerivedFlags(analysis).aiRetentionIssues,
     !.gdprIssues = DerivedFlags(analysis).gdprIssues,
     !.shadowAiIssues = DerivedFlags(analysis).shadowAiIssues,
     !.detectedIssues = IF analysis.issues.present THEN analysis.issues.items ELSE << >>,
     !.scanData = [NoScanData EXCEPT !.kind = "analysis", !.analysis = analysis, !.url = nu],
     !.securityHeaders = sec,
     !.thirdPartyScripts = scripts,
     !.sslValidation = ssl,
     !.piiExposure = [present |-> TRUE, detected |-> FALSE, severity |-> "low"],
     !.cureNoticeEligible = determineCureEligibility(analysis)]

\* ------------------------------------------------------------------------
\* scanner: analyzeUrl as a state machine, one step per synchronous segment
\* ------------------------------------------------------------------------

VARIABLES
  pc,                \* position of the invocation of analyzeUrl
  url,               \* argument url
  firecrawlApiKey,   \* TRUE iff argument firecrawlApiKey is set
  bedrockConfig,     \* TRUE iff argument bedrockConfig is set
  normalizedUrl,     \* local normalizedUrl
  scrapeData,        \* local scrapeData.data
  securityHeaders,   \* local securityHeaders
  thirdPartyScripts, \* local thirdPartyScripts
  sslValidation,     \* local sslValidation
  analysisText,      \* text the model returned, as parsed
  error,             \* what failed (kind) and the message of the caught Error
  softFailures,      \* detectors whose own request failed
  calls,             \* requests issued so far, per collaborator
  result,            \* the value returned to the caller
  bedrockResponse,   \* what the text-generation service answered
  detIn,             \* arguments and responses given to a detector called on its own
  detOut,            \* what analyzeSecurityHeaders and validateSSL returned for detIn
  clock,             \* the instant new Date() returns
  invocation,        \* per concurrent invocation: its arguments and what the collaborators answer
  scans,             \* per activation record of analyzeUrl: its locals
  db,                \* the rows of the worker's database, per table
  bucket,            \* the keys of the objects in R2_BUCKET
  sessions,          \* the users holding a valid session cookie
  reply,             \* the last response of the worker
  env,               \* the bindings the worker is deployed with
  request,           \* the last webhook request the worker received
  outbox,            \* the emails handed to the mail binding
  lambdaCalls,       \* the requests to the Lambda endpoints, each with its position
  scanRows,          \* table scans with its risk scores, in rowid order
  lastRiskScore,     \* column users.last_risk_score, per user
  alertRows,         \* table compliance_alerts with its marks, in rowid order
  scanApi            \* the request to POST /api/scan and what the handler did with it

\* the state of one invocation of analyzeUrl
scanVars ==
  << pc, url, firecrawlApiKey, bedrockConfig, normalizedUrl, scrapeData,
     securityHeaders, thirdPartyScripts, sslValidation, analysisText, error,
     softFailures, calls, result, bedrockResponse >>

\* the state of the detectors called on their own
detVars == << detIn, detOut >>

\* the state of two invocations of analyzeUrl in flight together
pairVars == << invocation, scans >>

\* the state of the worker: database, object storage, sessions
\* the tables and requests of the Lambda endpoints, statement by statement
lambdaVars == << lambdaCalls, scanRows, lastRiskScore, alertRows >>

acctVars == << db, bucket, sessions, reply, env, request, outbox, lambdaVars, scanApi >>

\* what the account and vault handlers leave alone
hookVars == << env, request, outbox, lambdaVars, scanApi >>

\* everything an invocation of analyzeUrl leaves alone
nonScanVars == << detVars, pairVars, acctVars, clock >>

\* everything a detector called on its own leaves alone
nonDetVars == << scanVars, pairVars, acctVars, clock >>

\* everything the pair of invocations and the clock leave alone
nonPairVars == << scanVars, detVars, acctVars >>

\* everything the worker's handlers leave alone
nonAcctVars == << scanVars, detVars, pairVars, clock >>

vars == << scanVars, detVars, pairVars, clock, acctVars >>

NoDetIn ==
  [resp |-> [ok |-> FALSE, headers |-> {}], url |-> << >>,
   html |-> [sigs |-> {}, insecureRefs |-> FALSE], probe |-> 0]

NoDetOut == [headers |-> NoSecurityHeaders, ssl |-> NoSslValidation]

NoError == [kind |-> "none", message |-> NoMessage]

NoText == [json |-> "none", analysis |-> EmptyObject]

NoResponse == [kind |-> "none", status |-> 0, detail |-> ""]

NoCalls == [firecrawl |-> 0, head |-> 0, probe |-> 0, bedrock |-> 0]

\* the invocations that can be in flight together
ScanIds == {1, 2}

NoInvocation ==
  [url |-> << >>, firecrawlApiKey |-> FALSE, bedrockConfig |-> FALSE,
   scrape |-> [kind |-> "network", status |-> 0, data |-> NoScrapeData],
   head |-> [ok |-> FALSE, headers |-> {}], probe |-> 0,
   bedrock |-> [kind |-> "network", status |-> 0, detail |-> "", text |-> NoModelText]]

\* the locals of analyzeUrl on entry
EntryLocals(u, key, config) ==
  [pc |-> "config", url |-> u, firecrawlApiKey |-> key, bedrockConfig |-> config,
   normalizedUrl |-> << >>, scrapeData |-> NoScrapeData,
   securityHeaders |-> NoSecurityHeaders, thirdPartyScripts |-> NoThirdPartyScripts,
   sslValidation |-> NoSslValidation, result |-> NoResult]

NoLocals == [EntryLocals(<< >>, FALSE, FALSE) EXCEPT !.pc = "idle"]

\* no pair of invocations is in flight
PairIdle ==
  /\ invocation = [i \in ScanIds |-> NoInvocation]
  /\ scans = [i \in ScanIds |-> NoLocals]

\* the tables of the worker's database, all empty
EmptyDb ==
  [users |-> {}, scans |-> {}, compliance_alerts |-> {}, governance_documents |-> {},
   shield_certifications |-> {}, checklist_progress |-> {}, monitoring_preferences |-> {},
   intent_events |-> {}, scan_attempts |-> {}]

NoReply == [handler |-> "none", user |-> "", status |-> 0]

\* JSON.parse(body).data.object, the fields the webhooks read
NoEvent == [type |-> "", customer_email |-> "", metadata_email |-> "", status |-> ""]

NoBody == [json |-> "none", event |-> NoEvent]

NoSignature == [present |-> FALSE, t |-> 0, v1 |-> {}]

NoRequest == [endpoint |-> "none", signature |-> NoSignature, body |-> NoBody]

\* every binding is configured
FullEnv == [STRIPE_WEBHOOK_SECRET |-> "whsec", STRIPE_SECRET_KEY |-> TRUE, EMAILS |-> TRUE]

Users == {"u1", "u2"}

LAMBDA_SECRET == "shield-2026-secure-browski"

\* header X-Lambda-Secret of a request: absent, the secret, or another value
LambdaSecretHeaders ==
  {[present |-> FALSE, value |-> ""],
   [present |-> TRUE, value |-> LAMBDA_SECRET],
   [present |-> TRUE, value |-> "shield-2026"]}

validateLambdaRequestOrAbsent(header) ==
  ~header.present \/ header.value = LAMBDA_SECRET

\* secret !== LAMBDA_SECRET, where an absent header is undefined
validateLambdaRequest(header) ==
  header.present /\ header.value = LAMBDA_SECRET

\* the two requests to the Lambda endpoints that can be in flight together
CallIds == {1, 2}

\* a request slot before its request arrives
NoCall ==
  [pc |-> "idle", handler |-> "none", header |-> [present |-> FALSE, value |-> ""],
   user |-> "", score |-> 0, alertType |-> "", status |-> 0,
   reads |-> 0, writes |-> 0, emails |-> 0, emailSent |-> FALSE, row |-> 0]

\* users.last_risk_score before any scan was saved
NoRiskScore == [present |-> FALSE, value |-> 0]

\* POST /api/scan before a request arrives
NoScanApi ==
  [pc |-> "idle", json |-> FALSE, url |-> << >>,
   env |-> [LAMBDA_SCANNER_ARN |-> FALSE, AWS_ACCESS_KEY_ID |-> FALSE,
            AWS_SECRET_ACCESS_KEY |-> FALSE, AWS_REGION |-> FALSE],
   accepted |-> FALSE, validated |-> << >>, lambdaInvocations |-> 0,
   analyzeUrlCalls |-> 0, lambdaOutcome |-> "none",
   response |-> [status |-> 0, error |-> "", success |-> TRUE, riskScore |-> 0]]

LambdaIdle ==
  /\ lambdaCalls = [i \in CallIds |-> NoCall]
  /\ scanRows = << >>
  /\ lastRiskScore = [u \in Users |-> NoRiskScore]
  /\ alertRows = << >>

\* a freshly deployed worker
WorkerFresh ==
  /\ db = EmptyDb
  /\ bucket = {}
  /\ sessions = {}
  /\ reply = NoReply
  /\ request = NoRequest
  /\ outbox = {}
  /\ LambdaIdle
  /\ scanApi = NoScanApi

Init ==
  /\ pc = "config"
  /\ url \in Targets
  /\ firecrawlApiKey \in BOOLEAN
  /\ bedrockConfig \in BOOLEAN
  /\ normalizedUrl = << >>
  /\ scrapeData = NoScrapeData
  /\ securityHeaders = NoSecurityHeaders
  /\ thirdPartyScripts = NoThirdPartyScripts
  /\ sslValidation = NoSslValidation
  /\ analysisText = NoText
  /\ error = NoError
  /\ softFailures = {}
  /\ calls = NoCalls
  /\ result = NoResult
  /\ bedrockResponse = NoResponse
  /\ detIn = NoDetIn
  /\ detOut = NoDetOut
  /\ clock = 0
  /\ PairIdle
  /\ WorkerFresh
  /\ env = FullEnv

\* leaves analyzeUrl through the catch block
Caught(kind, message) ==
  /\ error' = [kind |-> kind, message |-> message]
  /\ pc' = CatchOutcome(url, message).pc
  /\ result' = Stamped(CatchOutcome(url, message).result, clock)

\* the two configuration checks at the top of analyzeUrl
CheckConfig ==
  /\ UNCHANGED << nonScanVars, bedrockResponse >>
  /\ pc = "config"
  /\ IF ~firecrawlApiKey
     THEN /\ pc' = "done"
          /\ error' = [kind |-> "MissingConfig", message |-> NoMessage]
          /\ result' = Stamped(MissingFirecrawlKeyResult(url), clock)
     ELSE IF ~bedrockConfig
     THEN /\ pc' = "done"
          /\ error' = [kind |-> "MissingCredentials", message |-> NoMessage]
          /\ result' = Stamped(MissingBedrockConfigResult(url), clock)
     ELSE /\ pc' = "normalize"
          /\ UNCHANGED << error, result >>
  /\ UNCHANGED << url, firecrawlApiKey, bedrockConfig, normalizedUrl, scrapeData,
                  securityHeaders, thirdPartyScripts, sslValidation, analysisText,
                  softFailures, calls >>

\* normalization and the first new URL(normalizedUrl)
Normalize ==
  /\ UNCHANGED << nonScanVars, bedrockResponse >>
  /\ pc = "normalize"
  /\ normalizedUrl' = NormalizeUrl(url)
  /\ IF UrlParses(NormalizeUrl(url))
     THEN /\ pc' = "shortcircuit"
          /\ UNCHANGED << error, result >>
     ELSE /\ pc' = "done"
          /\ error' = [kind |-> "InvalidUrl", message |-> NoMessage]
          /\ result' = InvalidUrlResult
  /\ UNCHANGED << url, firecrawlApiKey, bedrockConfig, scrapeData, securityHeaders,
                  thirdPartyScripts, sslValidation, analysisText, softFailures, calls >>

\* the known-compliant check; otherwise the scrape request is sent
ShortCircuitCheck ==
  /\ UNCHANGED << nonScanVars, bedrockResponse >>
  /\ pc = "shortcircuit"
  /\ IF isKnownCompliant(DomainOf(normalizedUrl))
     THEN /\ pc' = "done"
          /\ result' = Stamped(KnownCompliantResult(DomainOf(normalizedUrl), normalizedUrl),
                                clock)
          /\ UNCHANGED calls
     ELSE /\ pc' = "scrape"
          /\ calls' = [calls EXCEPT !.firecrawl = @ + 1]
          /\ UNCHANGED result
  /\ UNCHANGED << url, firecrawlApiKey, bedrockConfig, normalizedUrl, scrapeData,
                  securityHeaders, thirdPartyScripts, sslValidation, analysisText,
                  error, softFailures >>

\* variant: the model is invoked as soon as the page content is there, before
\* the detectors have run
ScrapeReturnsThenModel ==
  /\ UNCHANGED << nonScanVars, bedrockResponse >>
  /\ pc = "scrape"
  /\ \E resp \in ScrapeResponses :
       IF resp.kind = "ok" /\ resp.data.markdown
       THEN /\ scrapeData' = resp.data
            /\ pc' = "bedrock"
            /\ calls' = [calls EXCEPT !.bedrock = @ + 1]
            /\ UNCHANGED << error, result >>
       ELSE /\ Caught("Firecrawl", FirecrawlErrorMessage(resp))
            /\ UNCHANGED << scrapeData, calls >>
  /\ UNCHANGED << url, firecrawlApiKey, bedrockConfig, normalizedUrl, securityHeaders,
                  thirdPartyScripts, sslValidation, analysisText, softFailures >>

\* the scrape request completes; on success the HEAD request of
\* analyzeSecurityHeaders is sent
ScrapeReturns ==
  /\ UNCHANGED << nonScanVars, bedrockResponse >>
  /\ pc = "scrape"
  /\ \E resp \in ScrapeResponses :
       IF resp.kind = "ok" /\ resp.data.markdown
       THEN /\ scrapeData' = resp.data
            /\ pc' = "headers"
            /\ calls' = [calls EXCEPT !.head = @ + 1]
            /\ UNCHANGED << error, result >>
       ELSE /\ Caught("Firecrawl", FirecrawlErrorMessage(resp))
            /\ UNCHANGED << scrapeData, calls >>
  /\ UNCHANGED << url, firecrawlApiKey, bedrockConfig, normalizedUrl, securityHeaders,
                  thirdPartyScripts, sslValidation, analysisText, softFailures >>

\* the HEAD request completes; script detection runs; validateSSL starts and,
\* for an https target, sends its probe; otherwise the model is invoked
HeadersReturn ==
  /\ UNCHANGED << nonScanVars, bedrockResponse >>
  /\ pc = "headers"
  /\ \E resp \in HeaderResponses :
       /\ securityHeaders' = analyzeSecurityHeaders(resp)
       /\ softFailures' = IF resp.ok THEN softFailures ELSE softFailures \cup {"headers"}
  /\ thirdPartyScripts' = analyzeThirdPartyScripts(scrapeData.html, scrapeData.content)
  /\ IF UrlParses(normalizedUrl) /\ IsHttps(normalizedUrl)
     THEN /\ pc' = "probe"
          /\ calls' = [calls EXCEPT !.probe = @ + 1]
          /\ UNCHANGED sslValidation
     ELSE /\ sslValidation' = validateSSL(normalizedUrl, scrapeData.html, 0)
          /\ pc' = "bedrock"
          /\ calls' = [calls EXCEPT !.bedrock = @ + 1]
  /\ UNCHANGED << url, firecrawlApiKey, bedrockConfig, normalizedUrl, scrapeData,
                  analysisText, error, result >>

\* the insecure-scheme probe completes; the model is invoked
ProbeReturns ==
  /\ UNCHANGED << nonScanVars, bedrockResponse >>
  /\ pc = "probe"
  /\ \E probe \in ProbeOutcomes :
       /\ sslValidation' = validateSSL(normalizedUrl, scrapeData.html, probe)
       /\ softFailures' = IF probe = 0 THEN softFailures \cup {"probe"} ELSE softFailures
  /\ pc' = "bedrock"
  /\ calls' = [calls EXCEPT !.bedrock = @ + 1]
  /\ UNCHANGED << url, firecrawlApiKey, bedrockConfig, normalizedUrl, scrapeData,
                  securityHeaders, thirdPartyScripts, analysisText, error, result >>

\* invokeClaudeSonnet completes; JSON.parse, risk aggregation and result
\* compilation follow without another await
BedrockReturns ==
  /\ UNCHANGED nonScanVars
  /\ pc = "bedrock"
  /\ \E resp \in BedrockResponses :
       /\ bedrockResponse' = [kind |-> resp.kind, status |-> resp.status, detail |-> resp.detail]
       /\ IF invokeClaudeSonnet(resp).threw
          THEN /\ Caught("Bedrock", invokeClaudeSonnet(resp).message)
               /\ UNCHANGED analysisText
          ELSE /\ analysisText' = resp.text
               /\ IF JsonParse(resp.text).threw
                  THEN Caught("Parse", JsonParse(resp.text).message)
                  ELSE IF JsonParse(resp.text).isNull
                  THEN Caught("Parse", <<"Cannot read properties of null (reading 'riskScore')">>)
                  ELSE /\ pc' = "done"
                       /\ result' = Stamped(CompiledResult(JsonParse(resp.text).value,
                                                           normalizedUrl, securityHeaders,
                                                           thirdPartyScripts, sslValidation),
                                            clock)
                       /\ UNCHANGED error
  /\ UNCHANGED << url, firecrawlApiKey, bedrockConfig, normalizedUrl, scrapeData,
                  securityHeaders, thirdPartyScripts, sslValidation, softFailures, calls >>

Next ==
  \/ CheckConfig
  \/ Normalize
  \/ ShortCircuitCheck
  \/ ScrapeReturns
  \/ HeadersReturn
  \/ ProbeReturns
  \/ BedrockReturns

Spec == Init /\ [][Next]_vars

\* ------------------------------------------------------------------------
\* scanner-utils: analyzeSecurityHeaders and validateSSL called on their own
\* ------------------------------------------------------------------------

\* every set of response headers the inspector distinguishes, and a failure
AllHeaderResponses ==
  { [ok |-> TRUE, headers |-> hs] : hs \in SUBSET HeaderNames }
    \cup { [ok |-> FALSE, headers |-> {}] }

\* URLs handed to validateSSL
DetectorUrls == { NormalizeUrl(t) : t \in Targets }

DetectorHtml == { [sigs |-> {}, insecureRefs |-> ir] : ir \in BOOLEAN }

\* no invocation of analyzeUrl is in progress
ScanIdle ==
  /\ pc = "idle"
  /\ url = << >>
  /\ firecrawlApiKey = FALSE
  /\ bedrockConfig = FALSE
  /\ normalizedUrl = << >>
  /\ scrapeData = NoScrapeData
  /\ securityHeaders = NoSecurityHeaders
  /\ thirdPartyScripts = NoThirdPartyScripts
  /\ sslValidation = NoSslValidation
  /\ analysisText = NoText
  /\ error = NoError
  /\ softFailures = {}
  /\ calls = NoCalls
  /\ result = NoResult
  /\ bedrockResponse = NoResponse

InitDetectors ==
  /\ ScanIdle
  /\ detIn \in [resp : AllHeaderResponses, url : DetectorUrls, html : DetectorHtml,
                probe : ProbeOutcomes]
  /\ detOut = NoDetOut
  /\ clock = 0
  /\ PairIdle
  /\ WorkerFresh
  /\ env = FullEnv

RunAnalyzeSecurityHeaders ==
  /\ ~detOut.headers.present
  /\ detOut' = [detOut EXCEPT !.headers = analyzeSecurityHeaders(detIn.resp)]
  /\ UNCHANGED << detIn, nonDetVars >>

RunValidateSSL ==
  /\ ~detOut.ssl.present
  /\ detOut' = [detOut EXCEPT !.ssl = validateSSL(detIn.url, detIn.html, detIn.probe)]
  /\ UNCHANGED << detIn, nonDetVars >>

NextDetectors ==
  \/ RunAnalyzeSecurityHeaders
  \/ RunValidateSSL

SpecDetectors == InitDetectors /\ [][NextDetectors]_vars

\* ------------------------------------------------------------------------
\* scanner: two invocations of analyzeUrl in flight together
\* ------------------------------------------------------------------------

MaxClock == 2

\* leaves analyzeUrl with the value r
Return(s, r) == [s EXCEPT !.pc = "done", !.result = r]

\* one step of analyzeUrl, from one await to the next, on the locals s of an
\* invocation whose collaborators answer as w says, at the instant now
ScanStep(s, w, now) ==
  CASE s.pc = "config" ->
         IF ~s.firecrawlApiKey
         THEN Return(s, Stamped(MissingFirecrawlKeyResult(s.url), now))
         ELSE IF ~s.bedrockConfig
         THEN Return(s, Stamped(MissingBedrockConfigResult(s.url), now))
         ELSE [s EXCEPT !.pc = "normalize"]
    [] s.pc = "normalize" ->
         IF UrlParses(NormalizeUrl(s.url))
         THEN [s EXCEPT !.pc = "shortcircuit", !.normalizedUrl = NormalizeUrl(s.url)]
         ELSE [Return(s, InvalidUrlResult) EXCEPT !.normalizedUrl = NormalizeUrl(s.url)]
    [] s.pc = "shortcircuit" ->
         IF isKnownCompliant(DomainOf(s.normalizedUrl))
         THEN Return(s, Stamped(KnownCompliantResult(DomainOf(s.normalizedUrl),
                                                     s.normalizedUrl), now))
         ELSE [s EXCEPT !.pc = "scrape"]
    [] s.pc = "scrape" ->
         IF w.scrape.kind = "ok" /\ w.scrape.data.markdown
         THEN [s EXCEPT !.pc = "headers", !.scrapeData = w.scrape.data]
         ELSE Return(s, Stamped(CatchOutcome(s.url, FirecrawlErrorMessage(w.scrape)).result,
                                now))
    [] s.pc = "headers" ->
         LET t == [s EXCEPT !.securityHeaders = analyzeSecurityHeaders(w.head),
                            !.thirdPartyScripts =
                               analyzeThirdPartyScripts(s.scrapeData.html, s.scrapeData.content)]
         IN IF UrlParses(s.normalizedUrl) /\ IsHttps(s.normalizedUrl)
            THEN [t EXCEPT !.pc = "probe"]
            ELSE [t EXCEPT !.pc = "bedrock",
                           !.sslValidation = validateSSL(s.normalizedUrl, s.scrapeData.html, 0)]
    [] s.pc = "probe" ->
         [s EXCEPT !.pc = "bedrock",
                   !.sslValidation = validateSSL(s.normalizedUrl, s.scrapeData.html, w.probe)]
    [] s.pc = "bedrock" ->
         IF invokeClaudeSonnet(w.bedrock).threw
         THEN Return(s, Stamped(CatchOutcome(s.url, invokeClaudeSonnet(w.bedrock).message).result,
                                now))
         ELSE IF JsonParse(w.bedrock.text).threw
         THEN Return(s, Stamped(CatchOutcome(s.url, JsonParse(w.bedrock.text).message).result,
                                now))
         ELSE IF JsonParse(w.bedrock.text).isNull
         THEN Return(s, Stamped(CatchOutcome(s.url,
                                   <<"Cannot read properties of null (reading 'riskScore')">>).result,
                                now))
         ELSE Return(s, Stamped(CompiledResult(JsonParse(w.bedrock.text).value, s.normalizedUrl,
                                               s.securityHeaders, s.thirdPartyScripts,
                                               s.sslValidation), now))
    [] OTHER -> s

\* arguments and collaborator answers of the invocations in flight together
PairInvocations ==
  { [url |-> u, firecrawlApiKey |-> key, bedrockConfig |-> TRUE,
     scrape |-> sc, head |-> [ok |-> TRUE, headers |-> {"strict-transport-security"}],
     probe |-> 301, bedrock |-> br] :
      u \in {T_example, T_google, T_space},
      key \in BOOLEAN,
      sc \in { [kind |-> "http", status |-> 503, data |-> NoScrapeData],
               [kind |-> "ok", status |-> 200,
                data |-> [markdown |-> TRUE, content |-> [phrases |-> {}],
                          html |-> [sigs |-> {}, insecureRefs |-> TRUE]]] },
      br \in { [kind |-> "http", status |-> 429,
                detail |-> "ThrottlingException: Too many requests", text |-> NoModelText],
               [kind |-> "text", status |-> 200, detail |-> "",
                text |-> [json |-> "object", analysis |-> CleanObject]] } }

InitPair ==
  /\ ScanIdle
  /\ detIn = NoDetIn
  /\ detOut = NoDetOut
  /\ clock = 0
  /\ invocation \in [ScanIds -> PairInvocations]
  /\ scans = [i \in ScanIds |->
                EntryLocals(invocation[i].url, invocation[i].firecrawlApiKey,
                            invocation[i].bedrockConfig)]
  /\ WorkerFresh
  /\ env = FullEnv

\* variant: the locals are module-level variables, one set for every invocation
ScanSlotShared(i) == 1

\* the activation record that holds the locals of invocation i
ScanSlot(i) == i

\* invocation i runs from one await to the next
Advance(i) ==
  /\ scans[ScanSlot(i)].pc # "done"
  /\ scans' = [scans EXCEPT ![ScanSlot(i)] = ScanStep(@, invocation[i], clock)]
  /\ UNCHANGED << invocation, clock, nonPairVars >>

\* time passes
Tick ==
  /\ clock < MaxClock
  /\ clock' = clock + 1
  /\ UNCHANGED << invocation, scans, nonPairVars >>

NextPair ==
  \/ \E i \in ScanIds : Advance(i)
  \/ Tick

SpecPair == InitPair /\ [][NextPair]_vars

\* ------------------------------------------------------------------------
\* worker: the handlers that write and delete a user's data
\* ------------------------------------------------------------------------

\* file_key: vault/<user id>/<timestamp>_<file name>
FileKeyOf(u) == [user |-> u, name |-> "policy.pdf"]

\* a row of users: the columns the handlers read or write
UserRow(id, subscribed, customer, status) ==
  [id |-> id, is_subscribed |-> subscribed, stripe_customer_id |-> customer,
   subscription_status |-> status]

\* the Stripe customer of a user
CustomerOf(u) == IF u = "u1" THEN "cus_1" ELSE "cus_2"

Reply(handler, u, status) ==
  reply' = [handler |-> handler, user |-> u, status |-> status]

\* SELECT id FROM users WHERE id = ?
UserRows(u) == { r \in db.users : r.id = u }

\* SELECT file_key FROM governance_documents WHERE user_id = ?
DocumentsOf(u) == { d \in db.governance_documents : d.user_id = u }

\* what can happen to POST /api/sessions after the cookie is set: the user
\* is verified and the row is there or inserted, the users service answers
\* not ok, it answers without id or email, or the fetch, the SELECT or the
\* INSERT throws
SessionOutcomes ==
  {"verified", "not ok", "invalid user data", "fetch throws", "select throws",
   "insert throws"}

\* POST /api/sessions: the cookie is set, then the user row is created
\* unless the user could not be verified; the catch block only logs
CreateSession(u) ==
  /\ sessions' = sessions \cup {u}
  /\ \E outcome \in SessionOutcomes :
       IF outcome = "verified"
       THEN /\ db' = IF UserRows(u) = {}
                     THEN [db EXCEPT !.users = @ \cup {UserRow(u, FALSE, "", "")}]
                     ELSE db
            /\ Reply("POST /api/sessions", u, 200)
       ELSE IF outcome \in {"not ok", "invalid user data"}
       THEN /\ UNCHANGED db
            /\ Reply("POST /api/sessions", u, 500)
       ELSE /\ outcome = "insert throws" => UserRows(u) = {}
            /\ UNCHANGED db
            /\ Reply("POST /api/sessions", u, 200)
  /\ UNCHANGED << bucket, nonAcctVars, hookVars >>

\* POST /api/sync-subscription
SyncSubscription(u) ==
  /\ IF u \notin sessions
     THEN /\ Reply("POST /api/sync-subscription", u, 401)
          /\ UNCHANGED db
     ELSE \E stripe \in {"none", "inactive", "active"} :
            IF stripe = "none"
            THEN /\ Reply("POST /api/sync-subscription", u, 404)
                 /\ UNCHANGED db
            ELSE /\ db' = [db EXCEPT !.users = (@ \ UserRows(u))
                              \cup {UserRow(u, stripe = "active", CustomerOf(u),
                                             IF stripe = "active" THEN "active"
                                             ELSE "inactive")}]
                 /\ Reply("POST /api/sync-subscription", u, 200)
  /\ UNCHANGED << bucket, sessions, nonAcctVars, hookVars >>

\* POST /api/lambda/save-scan
handleSaveScan(u) ==
  /\ \E header \in LambdaSecretHeaders :
       IF ~validateLambdaRequest(header)
       THEN /\ Reply("POST /api/lambda/save-scan", u, 401)
            /\ UNCHANGED db
       ELSE /\ db' = [db EXCEPT !.scans = @ \cup {u}]
            /\ Reply("POST /api/lambda/save-scan", u, 200)
  /\ UNCHANGED << bucket, sessions, nonAcctVars, hookVars >>

\* POST /api/lambda/send-alert
handleSendAlert(u) ==
  /\ \E header \in LambdaSecretHeaders :
       IF ~validateLambdaRequest(header)
       THEN /\ Reply("POST /api/lambda/send-alert", u, 401)
            /\ UNCHANGED db
       ELSE /\ db' = [db EXCEPT !.compliance_alerts = @ \cup {u}]
            /\ Reply("POST /api/lambda/send-alert", u, 200)
  /\ UNCHANGED << bucket, sessions, nonAcctVars, hookVars >>

\* POST /api/vault/upload: R2_BUCKET.put, then the INSERT; either can throw
UploadDocument(u) ==
  /\ IF u \notin sessions
     THEN /\ Reply("POST /api/vault/upload", u, 401)
          /\ UNCHANGED << db, bucket >>
     ELSE IF UserRows(u) = {}
     THEN /\ Reply("POST /api/vault/upload", u, 404)
          /\ UNCHANGED << db, bucket >>
     ELSE IF \A r \in UserRows(u) : ~r.is_subscribed
     THEN /\ Reply("POST /api/vault/upload", u, 403)
          /\ UNCHANGED << db, bucket >>
     ELSE \E outcome \in {"ok", "putThrows", "insertThrows"} :
            /\ bucket' = IF outcome = "putThrows" THEN bucket ELSE bucket \cup {FileKeyOf(u)}
            /\ db' = IF outcome = "ok"
                     THEN [db EXCEPT !.governance_documents =
                             @ \cup {[user_id |-> u, file_key |-> FileKeyOf(u)]}]
                     ELSE db
            /\ Reply("POST /api/vault/upload", u, IF outcome = "ok" THEN 200 ELSE 500)
  /\ UNCHANGED << sessions, nonAcctVars, hookVars >>

\* DELETE /api/vault/documents/:id
DeleteDocument(u) ==
  /\ IF u \notin sessions
     THEN /\ Reply("DELETE /api/vault/documents/:id", u, 401)
          /\ UNCHANGED << db, bucket >>
     ELSE IF UserRows(u) = {} \/ DocumentsOf(u) = {}
     THEN /\ Reply("DELETE /api/vault/documents/:id", u, 404)
          /\ UNCHANGED << db, bucket >>
     ELSE \E d \in DocumentsOf(u), r2Throws \in BOOLEAN :
            IF r2Throws
            THEN /\ Reply("DELETE /api/vault/documents/:id", u, 500)
                 /\ UNCHANGED << db, bucket >>
            ELSE /\ bucket' = bucket \ {d.file_key}
                 /\ db' = [db EXCEPT !.governance_documents = @ \ {d}]
                 /\ Reply("DELETE /api/vault/documents/:id", u, 200)
  /\ UNCHANGED << sessions, nonAcctVars, hookVars >>

\* GET /api/vault/documents
ListDocuments(u) ==
  /\ Reply("GET /api/vault/documents", u,
           IF u \notin sessions THEN 401
           ELSE IF UserRows(u) = {} THEN 404
           ELSE IF \A r \in UserRows(u) : ~r.is_subscribed THEN 403
           ELSE 200)
  /\ UNCHANGED << db, bucket, sessions, nonAcctVars, hookVars >>

\* GET /api/vault/download/:id
DownloadDocument(u) ==
  /\ Reply("GET /api/vault/download/:id", u,
           IF u \notin sessions THEN 401
           ELSE IF UserRows(u) = {} \/ DocumentsOf(u) = {} THEN 404
           ELSE IF \A d \in DocumentsOf(u) : d.file_key \notin bucket THEN 404
           ELSE 200)
  /\ UNCHANGED << db, bucket, sessions, nonAcctVars, hookVars >>

\* POST /api/certifications
CreateCertification(u) ==
  /\ IF u \notin sessions
     THEN /\ Reply("POST /api/certifications", u, 401)
          /\ UNCHANGED db
     ELSE IF UserRows(u) = {} \/ \A r \in UserRows(u) : ~r.is_subscribed
     THEN /\ Reply("POST /api/certifications", u, 403)
          /\ UNCHANGED db
     ELSE \E fields \in BOOLEAN :
            IF ~fields
            THEN /\ Reply("POST /api/certifications", u, 400)
                 /\ UNCHANGED db
            ELSE IF u \notin db.scans
            THEN /\ Reply("POST /api/certifications", u, 404)
                 /\ UNCHANGED db
            ELSE /\ db' = [db EXCEPT !.shield_certifications = @ \cup {u}]
                 /\ Reply("POST /api/certifications", u, 200)
  /\ UNCHANGED << bucket, sessions, nonAcctVars, hookVars >>

\* the DELETE statements of DELETE /api/users/me, in the order they are run
DeleteStatements ==
  << "governance_documents", "shield_certifications", "checklist_progress",
     "monitoring_preferences", "intent_events", "scans", "scan_attempts", "users" >>

\* the database after the first n DELETE statements have run for user u
AfterDeletes(u, n) ==
  [db EXCEPT
     !.governance_documents = IF n >= 1 THEN @ \ DocumentsOf(u) ELSE @,
     !.shield_certifications = IF n >= 2 THEN @ \ {u} ELSE @,
     !.checklist_progress = IF n >= 3 THEN @ \ {u} ELSE @,
     !.monitoring_preferences = IF n >= 4 THEN @ \ {u} ELSE @,
     !.intent_events = IF n >= 5 THEN @ \ {u} ELSE @,
     !.scans = IF n >= 6 THEN @ \ {u} ELSE @,
     !.scan_attempts = IF n >= 7 THEN @ \ {u} ELSE @,
     !.users = IF n >= 8 THEN @ \ UserRows(u) ELSE @]

\* the database after every DELETE statement has run for user u
AfterAllDeletes(u) == AfterDeletes(u, Len(DeleteStatements))

\* DELETE /api/users/me: the files of the user's documents are deleted from
\* R2, a failure there being logged and passed over; then the DELETE
\* statements run, any of which can throw; then the session is deleted
DeleteMe(u) ==
  /\ IF u \notin sessions
     THEN /\ Reply("DELETE /api/users/me", u, 401)
          /\ UNCHANGED << db, bucket, sessions >>
     ELSE \E failed \in SUBSET { d.file_key : d \in DocumentsOf(u) },
             n \in 0..Len(DeleteStatements) :
            /\ bucket' = bucket \ ({ d.file_key : d \in DocumentsOf(u) } \ failed)
            /\ IF n = Len(DeleteStatements)
               THEN /\ db' = AfterAllDeletes(u)
                    /\ sessions' = sessions \ {u}
                    /\ Reply("DELETE /api/users/me", u, 200)
               ELSE /\ db' = AfterDeletes(u, n)
                    /\ UNCHANGED sessions
                    /\ Reply("DELETE /api/users/me", u, 500)
  /\ UNCHANGED << nonAcctVars, hookVars >>

InitWorker ==
  /\ ScanIdle
  /\ detIn = NoDetIn
  /\ detOut = NoDetOut
  /\ clock = 0
  /\ PairIdle
  /\ WorkerFresh
  /\ env = FullEnv

NextWorker ==
  \E u \in Users :
     \/ CreateSession(u)
     \/ SyncSubscription(u)
     \/ handleSaveScan(u)
     \/ handleSendAlert(u)
     \/ UploadDocument(u)
     \/ DeleteDocument(u)
     \/ DeleteMe(u)

SpecWorker == InitWorker /\ [][NextWorker]_vars

\* the worker restricted to sign-in, subscription and the subscriber features
NextVault ==
  \E u \in Users :
     \/ CreateSession(u)
     \/ SyncSubscription(u)
     \/ handleSaveScan(u)
     \/ UploadDocument(u)
     \/ ListDocuments(u)
     \/ DownloadDocument(u)
     \/ DeleteDocument(u)
     \/ CreateCertification(u)

SpecVault == InitWorker /\ [][NextVault]_vars

\* ------------------------------------------------------------------------
\* stripe-api: verifyWebhookSignature; worker: the two Stripe webhooks
\* ------------------------------------------------------------------------

\* HMAC-SHA256 of "<timestamp>.<payload>" under a key, in hex: a value that
\* is equal only for equal key, timestamp and payload
Hmac(secret, timestamp, payload) == [key |-> secret, t |-> timestamp, payload |-> payload]

\* variant: any header that carries a timestamp and a v1 element is accepted
verifyWebhookSignatureShape(payload, signature, secret) ==
  /\ signature.t # 0
  /\ signature.v1 # {}

\* signature.t is 0 when the header has no t= element; v1 holds the values
\* of its v1= elements
verifyWebhookSignature(payload, signature, secret) ==
  /\ signature.t # 0
  /\ signature.v1 # {}
  /\ \E sig \in signature.v1 : sig = Hmac(secret, signature.t, payload)

StripeEvent(type, customerEmail, metadataEmail, status) ==
  [json |-> "event",
   event |-> [type |-> type, customer_email |-> customerEmail,
              metadata_email |-> metadataEmail, status |-> status]]

\* request bodies: text that is no JSON, and events
WebhookBodies ==
  { [json |-> "invalid", event |-> NoEvent],
    StripeEvent("checkout.session.completed", "a@x", "", "complete"),
    StripeEvent("customer.subscription.created", "", "b@x", "active"),
    StripeEvent("customer.subscription.updated", "", "a@x", "active"),
    StripeEvent("customer.subscription.updated", "", "a@x", "canceled"),
    StripeEvent("customer.subscription.updated", "b@x", "a@x", "canceled"),
    StripeEvent("customer.subscription.deleted", "", "a@x", "canceled"),
    StripeEvent("customer.subscription.deleted", "", "", "canceled"),
    StripeEvent("invoice.paid", "a@x", "", "paid") }

\* stripe-signature headers sent with a body: none, one signed by Stripe,
\* one signed for another body, one without timestamp
SignaturesFor(body) ==
  { NoSignature,
    [present |-> TRUE, t |-> 1, v1 |-> {Hmac("whsec", 1, body)}],
    [present |-> TRUE, t |-> 1,
     v1 |-> {Hmac("whsec", 1, StripeEvent("invoice.paid", "a@x", "", "paid"))}],
    [present |-> TRUE, t |-> 0, v1 |-> {Hmac("whsec", 0, body)}] }

\* what can go wrong while an event is processed: at most one of these
WebhookFaults ==
  {"none", "activationLookupNotOk", "activationLookupThrows", "activationWriteThrows",
   "emailThrows", "cancellationLookupNotOk", "cancellationLookupThrows",
   "cancellationWriteThrows"}

\* the users service: user-by-email
UserByEmail(email) == IF email = "a@x" THEN "u1" ELSE "u2"

\* a || b on strings
StrOr(a, b) == IF a # "" THEN a ELSE b

\* the block "Handle subscription events": the database and the emails
\* after it, and whether it threw; insertMissing tells whether a missing
\* users row is created
ActivationBlock(d, ev, fault, emails, insertMissing) ==
  LET email == StrOr(ev.customer_email, ev.metadata_email)
      u == UserByEmail(email)
      rows == { r \in d.users : r.id = u }
      written ==
        IF rows = {}
        THEN IF insertMissing
             THEN [d EXCEPT !.users = @ \cup {UserRow(u, TRUE, CustomerOf(u), "active")}]
             ELSE d
        ELSE [d EXCEPT !.users = (@ \ rows) \cup {UserRow(u, TRUE, CustomerOf(u), "active")}]
      mails ==
        IF ev.type = "checkout.session.completed" /\ emails /\ fault # "emailThrows"
        THEN {[to |-> email, mail |-> "welcome"], [to |-> email, mail |-> "payment"]}
        ELSE {}
  IN IF ev.type \notin {"checkout.session.completed", "customer.subscription.created",
                        "customer.subscription.updated"} \/ email = ""
     THEN [db |-> d, mails |-> {}, threw |-> FALSE]
     ELSE IF fault = "activationLookupThrows"
     THEN [db |-> d, mails |-> {}, threw |-> TRUE]
     ELSE IF fault = "activationLookupNotOk"
     THEN [db |-> d, mails |-> {}, threw |-> FALSE]
     ELSE IF fault = "activationWriteThrows"
     THEN [db |-> d, mails |-> {}, threw |-> TRUE]
     ELSE [db |-> written, mails |-> mails, threw |-> FALSE]

\* the block "Handle cancellation"
CancellationBlock(d, ev, fault) ==
  LET email == StrOr(ev.metadata_email, ev.customer_email)
      u == UserByEmail(email)
      rows == { r \in d.users : r.id = u }
      written ==
        [d EXCEPT !.users = (@ \ rows)
                    \cup { UserRow(r.id, FALSE, r.stripe_customer_id, "canceled") : r \in rows }]
  IN IF ev.type \notin {"customer.subscription.deleted", "customer.subscription.updated"}
          \/ ev.status # "canceled" \/ email = ""
     THEN [db |-> d, threw |-> FALSE]
     ELSE IF fault = "cancellationLookupThrows"
     THEN [db |-> d, threw |-> TRUE]
     ELSE IF fault = "cancellationLookupNotOk"
     THEN [db |-> d, threw |-> FALSE]
     ELSE IF fault = "cancellationWriteThrows"
     THEN [db |-> d, threw |-> TRUE]
     ELSE [db |-> written, threw |-> FALSE]

\* the part of both webhooks after the signature check: JSON.parse and the
\* two blocks; threw tells whether the catch block was reached
ProcessEvent(d, body, fault, emails, insertMissing) ==
  IF body.json # "event"
  THEN [db |-> d, mails |-> {}, threw |-> TRUE]
  ELSE LET a == ActivationBlock(d, body.event, fault, emails, insertMissing)
           c == CancellationBlock(a.db, body.event, fault)
       IN IF a.threw
          THEN [db |-> a.db, mails |-> a.mails, threw |-> TRUE]
          ELSE [db |-> c.db, mails |-> a.mails, threw |-> c.threw]

\* the return statement a webhook request ends in
WebhookOutcome(signature, body, fault, emails, insertMissing) ==
  IF ~signature.present THEN "missingSignature"
  ELSE IF env.STRIPE_WEBHOOK_SECRET = "" THEN "missingSecret"
  ELSE IF ~env.STRIPE_SECRET_KEY THEN "missingKey"
  ELSE IF ~verifyWebhookSignature(body, signature, env.STRIPE_WEBHOOK_SECRET)
  THEN "invalidSignature"
  ELSE IF ProcessEvent(db, body, fault, emails, insertMissing).threw THEN "caught"
  ELSE "processed"

\* variant: a processing failure is answered with 500 so that Stripe retries
StripeWebhookStatusRetry(outcome) == IF outcome = "caught" THEN 500 ELSE 200

\* the status of each return statement of POST /api/webhooks/stripe
StripeWebhookStatus(outcome) ==
  CASE outcome = "missingSignature" -> 200
    [] outcome = "missingSecret" -> 200
    [] outcome = "missingKey" -> 200
    [] outcome = "invalidSignature" -> 200
    [] outcome = "caught" -> 200
    [] outcome = "processed" -> 200

\* the status of each return statement of POST /api/stripe/webhook
LegacyWebhookStatus(outcome) == IF outcome = "processed" THEN 200 ELSE 400

\* POST /api/webhooks/stripe
StripeWebhook ==
  \E body \in WebhookBodies, fault \in WebhookFaults :
    \E signature \in SignaturesFor(body) :
      /\ request' = [endpoint |-> "POST /api/webhooks/stripe", signature |-> signature,
                     body |-> body]
      /\ Reply("POST /api/webhooks/stripe", "",
               StripeWebhookStatus(WebhookOutcome(signature, body, fault, env.EMAILS, TRUE)))
      /\ IF WebhookOutcome(signature, body, fault, env.EMAILS, TRUE)
              \notin {"caught", "processed"}
         THEN UNCHANGED << db, outbox >>
         ELSE /\ db' = ProcessEvent(db, body, fault, env.EMAILS, TRUE).db
              /\ outbox' = outbox \cup ProcessEvent(db, body, fault, env.EMAILS, TRUE).mails
      /\ UNCHANGED << bucket, sessions, env, lambdaVars, scanApi, nonAcctVars >>

\* POST /api/stripe/webhook, the legacy path
LegacyStripeWebhook ==
  \E body \in WebhookBodies, fault \in WebhookFaults :
    \E signature \in SignaturesFor(body) :
      /\ request' = [endpoint |-> "POST /api/stripe/webhook", signature |-> signature,
                     body |-> body]
      /\ Reply("POST /api/stripe/webhook", "",
               LegacyWebhookStatus(WebhookOutcome(signature, body, fault, env.EMAILS, FALSE)))
      /\ IF WebhookOutcome(signature, body, fault, env.EMAILS, FALSE)
              \notin {"caught", "processed"}
         THEN UNCHANGED << db, outbox >>
         ELSE /\ db' = ProcessEvent(db, body, fault, env.EMAILS, FALSE).db
              /\ outbox' = outbox \cup ProcessEvent(db, body, fault, env.EMAILS, FALSE).mails
      /\ UNCHANGED << bucket, sessions, env, lambdaVars, scanApi, nonAcctVars >>

\* the deployments: every binding configured, or one of them missing
StripeEnvs ==
  { FullEnv,
    [FullEnv EXCEPT !.STRIPE_WEBHOOK_SECRET = ""],
    [FullEnv EXCEPT !.STRIPE_SECRET_KEY = FALSE],
    [FullEnv EXCEPT !.EMAILS = FALSE] }

InitStripe ==
  /\ ScanIdle
  /\ detIn = NoDetIn
  /\ detOut = NoDetOut
  /\ clock = 0
  /\ PairIdle
  /\ WorkerFresh
  /\ env \in StripeEnvs

NextStripe ==
  \/ StripeWebhook
  \/ LegacyStripeWebhook

SpecStripe == InitStripe /\ [][NextStripe]_vars

\* ------------------------------------------------------------------------
\* Properties
\* ------------------------------------------------------------------------

\* analyzeUrl returned the result compiled from a parsed model answer
FullScanDone == pc = "done" /\ result.success /\ result.scanData.kind = "analysis"

\* the object the model answered with
ModelAnswer == analysisText.analysis

Clamp(x, lo, hi) == IF x < lo THEN lo ELSE IF x > hi THEN hi ELSE x

\* the four adjustments, read off the evidence in the returned result
ExpectedAdjustment ==
  (IF ~result.sslValidation.hasSSL THEN 15 ELSE 0)
    + (IF result.sslValidation.mixedContent THEN 10 ELSE 0)
    + (IF result.securityHeaders.score < 50 THEN 10 ELSE 0)
    + (IF Cardinality({ result.thirdPartyScripts.other[i] :
                          i \in 1..Len(result.thirdPartyScripts.other) }) > 5
          /\ ~result.thirdPartyScripts.privacyPolicyMentions
       THEN 10 ELSE 0)

\* C1: whenever a scan reaches risk aggregation with a numeric base score
\* proposed by the model, the returned riskScore lies in 0..100, and a base
\* of 0 with no adjustment firing is returned as 0.
C1_RiskScoreInRange ==
  (FullScanDone /\ ModelAnswer.riskScore.t = "num") =>
     /\ result.riskScore \in 0..100
     /\ (ModelAnswer.riskScore.n = 0 /\ ExpectedAdjustment = 0) => result.riskScore = 0

\* C2: the riskScore of a successful full scan equals
\* clamp(base + 15*[not secure] + 10*[mixed content] + 10*[header score < 50]
\*       + 10*[more than 5 scripts and no disclosure text], 0, 100).
C2_RiskScoreFormula ==
  (FullScanDone /\ ModelAnswer.riskScore.t = "num") =>
     result.riskScore = Clamp(ModelAnswer.riskScore.n + ExpectedAdjustment, 0, 100)

\* the model answered each of the five booleans the derived flags read as a boolean
FlagInputsAreBooleans ==
  \A k \in {"hasCookieBanner", "hasPrivacyPolicy", "hasAiFeatures", "hasAiDisclosure",
            "adaIssues"} : ModelAnswer[k].t = "bool"

\* C3: in every successful full scan whose model answer gives booleans,
\* aiRetentionIssues = hasAiFeatures and not hasPrivacyPolicy,
\* shadowAiIssues = hasAiFeatures and not hasAiDisclosure,
\* gdprIssues = not hasCookieBanner or not hasPrivacyPolicy,
\* adaIssues = the model's accessibility flag; values the model gives for the
\* three derived flags themselves have no effect.
C3_DerivedFlags ==
  (FullScanDone /\ FlagInputsAreBooleans) =>
     /\ result.aiRetentionIssues
          = JBool(ModelAnswer.hasAiFeatures.b /\ ~ModelAnswer.hasPrivacyPolicy.b)
     /\ result.shadowAiIssues
          = JBool(ModelAnswer.hasAiFeatures.b /\ ~ModelAnswer.hasAiDisclosure.b)
     /\ result.gdprIssues
          = JBool(~ModelAnswer.hasCookieBanner.b \/ ~ModelAnswer.hasPrivacyPolicy.b)
     /\ result.adaIssues = ModelAnswer.adaIssues

\* a full scan in which the model itself claimed "no retention issue" while
\* reporting AI features and no privacy policy
C3_Witness ==
  /\ FullScanDone
  /\ FlagInputsAreBooleans
  /\ ModelAnswer.aiRetentionIssues = JFalse
  /\ ModelAnswer.hasAiFeatures = JTrue
  /\ ModelAnswer.hasPrivacyPolicy = JFalse
  /\ result.aiRetentionIssues = JTrue

CurableIndicator(a) ==
  \/ Truthy(a.hasAiFeatures) /\ ~Truthy(a.hasAiDisclosure)
  \/ ~Truthy(a.hasPrivacyPolicy)
  \/ ~Truthy(a.hasCookieBanner)
  \/ Truthy(a.adaIssues)

NonCurableIndicator(a) ==
  \/ Truthy(a.socialScoring)
  \/ Truthy(a.discrimination)
  \/ a.piiSeverity \in {"critical", "high"}

StatesTechnicalFailure(issues) ==
  \E i \in 1..Len(issues) :
     \/ issues[i] = TechnicalErrorNote
     \/ issues[i][1] \in {"TECHNICAL ERROR: FIRECRAWL_API_KEY not configured",
                          "TECHNICAL ERROR: AWS Bedrock credentials not configured"}

\* C6: every failed result has all four framework-issue flags true, the
\* fixed default risk score, and an issue list saying the failure is technical.
C6_FailedResultConservative ==
  (pc = "done" /\ ~result.success) =>
     /\ result.adaIssues = JTrue
     /\ result.aiRetentionIssues = JTrue
     /\ result.gdprIssues = JTrue
     /\ result.shadowAiIssues = JTrue
     /\ result.riskScore = 0
     /\ StatesTechnicalFailure(result.detectedIssues)

\* C7: when the model's text is not a JSON object, the scan returns
\* success=false with a technical-error issue list.
C7_NonObjectTextFails ==
  (pc = "done" /\ analysisText.json \in {"invalid", "null", "scalar"}) =>
     /\ ~result.success
     /\ StatesTechnicalFailure(result.detectedIssues)

RequiredBooleans ==
  {"hasCookieBanner", "hasPrivacyPolicy", "hasAiFeatures", "hasAiDisclosure",
   "hasBiometricConsent", "socialScoring", "discrimination", "adaIssues", "trustSignals"}

SchemaValid(a) ==
  /\ \A k \in RequiredBooleans : a[k].t = "bool"
  /\ a.riskScore.t = "num"
  /\ a.issues.present

\* C8: a JSON object lacking a required field, or holding one of the wrong
\* type, makes the scan fail.
C8_SchemaViolationFails ==
  (pc = "done" /\ analysisText.json = "object" /\ ~SchemaValid(ModelAnswer)) =>
     ~result.success

\* labels of a hostname: positions of the dots
DotPositions(h) == { i \in 1..Len(h) : h[i] = "." }

\* the last two labels of a hostname
RegistrableDomain(h) ==
  IF Cardinality(DotPositions(h)) < 2 THEN h
  ELSE LET last == CHOOSE i \in DotPositions(h) : \A j \in DotPositions(h) : j <= i
           prev == CHOOSE i \in DotPositions(h) \ {last} :
                     \A j \in DotPositions(h) \ {last} : j <= i
       IN SubSeq(h, prev + 1, Len(h))

ListedDomains == { KNOWN_COMPLIANT_DOMAINS[i] : i \in 1..Len(KNOWN_COMPLIANT_DOMAINS) }

\* the target parses and its registrable domain is an entry of the list
TargetIsListed ==
  /\ UrlParses(NormalizeUrl(url))
  /\ RegistrableDomain(Hostname(NormalizeUrl(url))) \in ListedDomains

IsBaselineResult(r) ==
  /\ r.success
  /\ r.riskScore = 15
  /\ r.securityHeaders.present
  /\ r.securityHeaders.hasCSP /\ r.securityHeaders.hasXFrameOptions
  /\ r.securityHeaders.hasHSTS /\ r.securityHeaders.hasXContentTypeOptions
  /\ r.securityHeaders.score = 100
  /\ r.sslValidation.present
  /\ r.sslValidation.hasSSL /\ r.sslValidation.httpsEnforced
  /\ r.sslValidation.certificateValid /\ ~r.sslValidation.mixedContent
  /\ r.detectedIssues = << >>
  /\ r.cureNoticeEligible = JFalse

C10_ShortCircuitIffListed ==
  (pc = "done" /\ firecrawlApiKey /\ bedrockConfig /\ UrlParses(normalizedUrl)) =>
     ((result.scanData.kind = "baseline") <=> TargetIsListed)

\* C11: a bare domain such as "example.com" is normalized to
\* "https://example.com" before the target is processed, and an input that
\* is not a URL (e.g. "ht!tp://bad", or one whose normalized form does not
\* parse) gets the invalid-URL failure without any collaborator being called.
C11_NormalizeAndReject ==
  /\ (url = T_example /\ pc \notin {"config", "normalize"} /\ firecrawlApiKey /\ bedrockConfig)
        => normalizedUrl = S_https \o T_example
  /\ (url = T_bang \/ ~UrlParses(NormalizeUrl(url))) =>
        /\ calls = NoCalls
        /\ (pc = "done" /\ firecrawlApiKey /\ bedrockConfig) => result = InvalidUrlResult

ExternalCallFailed(e) == e.kind \in {"Firecrawl", "Bedrock"}

HeaderAdjustment(sec) == IF sec.score < 50 THEN 10 ELSE 0

TransportAdjustment(ssl) ==
  (IF ~ssl.hasSSL THEN 15 ELSE 0) + (IF ssl.mixedContent THEN 10 ELSE 0)

\* a scan that finished after a detector's own request failed went on to the
\* semantic audit
SoftFailureDidNotAbort ==
  (softFailures # {} /\ pc = "done") =>
     /\ calls.bedrock = 1
     /\ error.kind \in {"none", "Bedrock", "Parse"}

\* C13 as stated: a failed header fetch or transport probe never aborts the
\* scan, and the failed detector's evidence is the value with the largest
\* risk adjustment for that detector (10 for headers, 15 for transport).
C13_SoftFailurePessimistic ==
  /\ SoftFailureDidNotAbort
  /\ "headers" \in softFailures => HeaderAdjustment(securityHeaders) = 10
  /\ ("probe" \in softFailures /\ sslValidation.present) =>
        TransportAdjustment(sslValidation) = 15

\* C13 amended: a failed header fetch or transport probe never aborts the
\* scan; a failed header fetch gives all four flags false and score 0 (the
\* largest header adjustment); a failed probe gives httpsEnforced = true and
\* leaves hasSSL, certificateValid and mixedContent as computed from the URL
\* and the markup.
C13_SoftFailureDegrades ==
  /\ SoftFailureDidNotAbort
  /\ "headers" \in softFailures =>
        /\ securityHeaders = [NoSecurityHeaders EXCEPT !.present = TRUE]
        /\ HeaderAdjustment(securityHeaders) = 10
  /\ ("probe" \in softFailures /\ sslValidation.present) =>
        /\ sslValidation.httpsEnforced
        /\ sslValidation.hasSSL
        /\ sslValidation.certificateValid
        /\ sslValidation.mixedContent = scrapeData.html.insecureRefs

\* a scan succeeded although both the header fetch and the probe failed
C13_Witness ==
  /\ pc = "done"
  /\ result.success
  /\ softFailures = {"headers", "probe"}
  /\ result.securityHeaders.score = 0
  /\ result.sslValidation.httpsEnforced

\* how many of the four headers the response carries, the content security
\* policy counting once under either of its names
HeadersPresent(resp) ==
  (IF {"content-security-policy", "content-security-policy-report-only"} \cap resp.headers # {}
   THEN 1 ELSE 0)
    + Cardinality(resp.headers \cap {"x-frame-options", "strict-transport-security",
                                     "x-content-type-options"})

\* C14: analyzeSecurityHeaders returns score = 25 x (number of the four
\* headers present), one of 0, 25, 50, 75, 100, the content security policy
\* counting as present under either name; on a fetch failure it returns all
\* four flags false and score 0.
C14_HeaderScore ==
  detOut.headers.present =>
     IF detIn.resp.ok
     THEN /\ detOut.headers.score = 25 * HeadersPresent(detIn.resp)
          /\ detOut.headers.score \in {0, 25, 50, 75, 100}
          /\ detOut.headers.hasCSP
               <=> ("content-security-policy" \in detIn.resp.headers
                      \/ "content-security-policy-report-only" \in detIn.resp.headers)
          /\ detOut.headers.hasXFrameOptions <=> "x-frame-options" \in detIn.resp.headers
          /\ detOut.headers.hasHSTS <=> "strict-transport-security" \in detIn.resp.headers
          /\ detOut.headers.hasXContentTypeOptions
               <=> "x-content-type-options" \in detIn.resp.headers
     ELSE detOut.headers = [NoSecurityHeaders EXCEPT !.present = TRUE]

\* exactly two of the four headers, one of them the report-only policy
C14_Witness ==
  /\ detOut.headers.present
  /\ detIn.resp.ok
  /\ detIn.resp.headers = {"content-security-policy-report-only", "strict-transport-security"}
  /\ detOut.headers.score = 50

\* C15: for a parseable target, hasSSL iff the scheme is https; httpsEnforced
\* iff the scheme is https and the probe answers 301 or 308 or cannot
\* connect; certificateValid equals hasSSL; mixedContent only when the scheme
\* is https and the markup references a resource over http://.
C15_TransportFlags ==
  (detOut.ssl.present /\ UrlParses(detIn.url)) =>
     /\ detOut.ssl.hasSSL <=> StartsWith(detIn.url, S_https)
     /\ detOut.ssl.httpsEnforced
          <=> (StartsWith(detIn.url, S_https) /\ detIn.probe \in {301, 308, 0})
     /\ detOut.ssl.certificateValid = detOut.ssl.hasSSL
     /\ detOut.ssl.mixedContent => (StartsWith(detIn.url, S_https) /\ detIn.html.insecureRefs)

\* an https target whose probe was answered with a temporary redirect
C15_Witness ==
  /\ detOut.ssl.present
  /\ UrlParses(detIn.url)
  /\ StartsWith(detIn.url, S_https)
  /\ detIn.probe = 302
  /\ detOut.ssl.hasSSL
  /\ ~detOut.ssl.httpsEnforced

\* the class a non-success status of the text-generation service belongs to
StatusClass(status) ==
  CASE status = 403 -> "access-denied"
    [] status = 404 -> "model-not-found"
    [] status = 429 -> "rate-limited"
    [] status = 400 -> "malformed-request"
    [] OTHER -> "unclassified"

\* the class named by the Error that invokeClaudeSonnet raised
RaisedClass(message) ==
  CASE message[1] = "AWS Access Denied (403): Check IAM permissions for bedrock:InvokeModel. Error: "
         -> "access-denied"
    [] message[1] = "Model Not Found (404): Claude 3.7 Sonnet may not be enabled in the region. Enable it in AWS Bedrock Console. Error: "
         -> "model-not-found"
    [] message[1] = "Rate Limited (429): Too many requests. Wait and retry. Error: "
         -> "rate-limited"
    [] message[1] = "Bad Request (400): Invalid model ID or request format. Error: "
         -> "malformed-request"
    [] OTHER -> "unclassified"

\* the text after "Scan failed: " in the first issue of a failed result
ReportedError(issues) == SubSeq(issues[1], 2, Len(issues[1]))

\* the class named by the first issue of a failed result
ReportedClass(issues) ==
  CASE ReportedError(issues) = <<"AWS Access Denied - Check IAM permissions for bedrock:InvokeModel">>
         -> "access-denied"
    [] ReportedError(issues) = <<"Model not found - Enable Claude 3.7 Sonnet in AWS Bedrock Console">>
         -> "model-not-found"
    [] ReportedError(issues) = <<"AWS rate limit exceeded - Wait a moment and retry">>
         -> "rate-limited"
    [] ReportedError(issues) = <<"Invalid request format - Check model ID and region">>
         -> "malformed-request"
    [] ReportedError(issues) = <<"Website scraping failed - Check FIRECRAWL_API_KEY">>
         -> "scraping-failed"
    [] OTHER -> "unclassified"

\* the result carries no finding about the target
NoComplianceFinding(r) ==
  /\ r.riskScore = 0
  /\ \A flag \in {r.hasCookieBanner, r.hasPrivacyPolicy, r.hasAiFeatures, r.hasAiDisclosure,
                   r.adaIssues, r.aiRetentionIssues, r.gdprIssues, r.shadowAiIssues} :
        flag = JFalse
  /\ Len(r.detectedIssues) = 2
  /\ r.detectedIssues[2] = TechnicalErrorNote

\* C16: a non-success response of the text-generation service is classified
\* by its status into one of five classes; invokeClaudeSonnet raises an error
\* of that class, analyzeUrl reports the same class in the issue list of the
\* failed result, and the result has success = false and no compliance finding.
C16_BedrockFailureClass ==
  (pc = "done" /\ bedrockResponse.kind = "http") =>
     /\ error.kind = "Bedrock"
     /\ RaisedClass(error.message) = StatusClass(bedrockResponse.status)
     /\ ReportedClass(result.detectedIssues) = StatusClass(bedrockResponse.status)
     /\ ~result.success
     /\ NoComplianceFinding(result)

\* the collaborator the reported error points the operator to
NamedCollaborator(issues) ==
  CASE ReportedClass(issues) \in {"access-denied", "model-not-found", "rate-limited",
                                  "malformed-request"} -> "text-generation service"
    [] ReportedClass(issues) = "scraping-failed" -> "content fetcher"
    [] ReportedError(issues)[1] \in {"Firecrawl API error: ",
                                     "Failed to scrape content - no markdown returned"}
         -> "content fetcher"
    [] ReportedError(issues)[1] \in {"Bedrock API error (",
                                     "No text content in Bedrock Converse response"}
         -> "text-generation service"
    [] OTHER -> "none"

\* the content fetcher answered with a non-success status or without content
FetcherFailed ==
  /\ error.kind = "Firecrawl"
  /\ error.message[1] \in {"Firecrawl API error: ",
                           "Failed to scrape content - no markdown returned"}

\* the text-generation service answered with a non-success status or without text
GeneratorFailed == error.kind = "Bedrock" /\ bedrockResponse.kind \in {"http", "notext"}

\* C17: the failed result names the collaborator that failed: a failure of
\* the content fetcher (any status, or no content) is attributed to the
\* content fetcher, a failure of the text-generation service to the
\* text-generation service, and never one to the other.
C17_FailureAttribution ==
  pc = "done" =>
     /\ FetcherFailed => NamedCollaborator(result.detectedIssues) = "content fetcher"
     /\ GeneratorFailed => NamedCollaborator(result.detectedIssues) = "text-generation service"
     /\ error.kind = "Firecrawl"
          => NamedCollaborator(result.detectedIssues) # "text-generation service"
     /\ error.kind = "Bedrock" => NamedCollaborator(result.detectedIssues) # "content fetcher"

RECURSIVE RunFrom(_, _, _, _)
\* the locals after k more steps of an invocation that runs by itself
RunFrom(s, w, now, k) == IF k = 0 THEN s ELSE RunFrom(ScanStep(s, w, now), w, now, k - 1)

\* the result of invocation w when nothing else runs and every reading of the
\* clock gives now
ResultAlone(w, now) ==
  RunFrom(EntryLocals(w.url, w.firecrawlApiKey, w.bedrockConfig), w, now, 7).result

\* what invocation i has returned
Returned(i) == scans[ScanSlot(i)].pc = "done"

ResultOf(i) == scans[ScanSlot(i)].result

Unstamped(r) == [r EXCEPT !.scanData.timestamp = [present |-> FALSE, at |-> 0]]

C19_NoInterference ==
  /\ [](\A i \in ScanIds :
          Returned(i) => ResultOf(i) = ResultAlone(invocation[i],
                                                   ResultOf(i).scanData.timestamp.at))
  /\ [][\A i \in ScanIds :
          \/ scans'[i] = scans[i]
          \/ /\ scans'[i] = ScanStep(scans[i], invocation[i], clock)
             /\ \A j \in ScanIds \ {i} : scans'[j] = scans[j]]_vars

\* one invocation has returned a full scan while a different one is still
\* waiting for the text-generation service
C19_Witness ==
  /\ Returned(1)
  /\ ResultOf(1).success /\ ResultOf(1).scanData.kind = "analysis"
  /\ scans[ScanSlot(2)].pc = "bedrock"
  /\ invocation[1] # invocation[2]

\* the tables that hold a row keyed by user u
TablesHolding(u) ==
  { tb \in {"scans", "compliance_alerts", "shield_certifications", "checklist_progress",
            "monitoring_preferences", "intent_events", "scan_attempts"} : u \in db[tb] }
    \cup (IF UserRows(u) # {} THEN {"users"} ELSE {})
    \cup (IF DocumentsOf(u) # {} THEN {"governance_documents"} ELSE {})

\* the stored files of user u
FilesOf(u) == { k \in bucket : k.user = u }

\* C20: after DELETE /api/users/me has answered with success, no table holds
\* a row keyed by that user and object storage holds no file of that user.
C20_DeletionLeavesNothing ==
  (reply.handler = "DELETE /api/users/me" /\ reply.status = 200) =>
     /\ TablesHolding(reply.user) = {}
     /\ FilesOf(reply.user) = {}

\* the last request passed the signature check of its webhook
SignedByStripe(req) ==
  /\ req.signature.present
  /\ req.signature.t # 0
  /\ Hmac(env.STRIPE_WEBHOOK_SECRET, req.signature.t, req.body) \in req.signature.v1

\* the last request was a cancellation event that POST /api/webhooks/stripe
\* verified and processed
CancellationProcessed(req) ==
  /\ req.endpoint = "POST /api/webhooks/stripe"
  /\ env.STRIPE_WEBHOOK_SECRET # "" /\ env.STRIPE_SECRET_KEY
  /\ SignedByStripe(req)
  /\ req.body.json = "event"
  /\ req.body.event.type \in {"customer.subscription.deleted", "customer.subscription.updated"}
  /\ req.body.event.status = "canceled"

\* the users an event names by email
UsersNamedBy(ev) ==
  { UserByEmail(e) : e \in {ev.customer_email, ev.metadata_email} \ {""} }

\* C21: after POST /api/webhooks/stripe has processed a verified
\* subscription.deleted or subscription.updated event with status "canceled",
\* the user the event refers to has is_subscribed = 0 and subscription_status
\* 'canceled', and that event has switched no user to is_subscribed = 1,
\* whatever the user lookups answered.
C21_CancellationTakesEffect ==
  /\ [](CancellationProcessed(request) =>
          \A r \in db.users :
             r.id \in UsersNamedBy(request.body.event)
               => (~r.is_subscribed /\ r.subscription_status = "canceled"))
  /\ [][CancellationProcessed(request') =>
          \A r \in db'.users :
             r.is_subscribed => \E q \in db.users : q.id = r.id /\ q.is_subscribed]_vars

\* C22: POST /api/webhooks/stripe answers 200 on every path, never 400 or 500.
C22_WebhookAlwaysAcknowledges ==
  reply.handler = "POST /api/webhooks/stripe" => reply.status = 200

\* a verified request whose body is no JSON: the catch block answered
C22_Witness ==
  /\ reply.handler = "POST /api/webhooks/stripe"
  /\ request.endpoint = "POST /api/webhooks/stripe"
  /\ env = FullEnv
  /\ SignedByStripe(request)
  /\ request.body.json = "invalid"
  /\ reply.status = 200

\* C25: a request to either Stripe webhook whose signature is missing or
\* does not verify for the exact request body changes no users row and sends
\* no email.
C25_UnverifiedRequestHasNoEffect ==
  [][(request'.endpoint \in {"POST /api/webhooks/stripe", "POST /api/stripe/webhook"}
        /\ ~SignedByStripe(request'))
       => (db' = db /\ outbox' = outbox)]_vars

\* a request signed for another body was refused while a subscriber's row exists
C25_Witness ==
  /\ request.endpoint = "POST /api/stripe/webhook"
  /\ request.signature.present /\ request.signature.t # 0
  /\ request.body.json = "event"
  /\ request.body.event.type = "customer.subscription.deleted"
  /\ ~SignedByStripe(request)
  /\ reply.status = 400
  /\ \E r \in db.users : r.is_subscribed

\* the operations reserved for subscribers
SubscriberOperations ==
  {"POST /api/vault/upload", "GET /api/vault/documents", "GET /api/vault/download/:id",
   "DELETE /api/vault/documents/:id", "POST /api/certifications"}

\* user u has a users row with is_subscribed = 1 in database d
SubscribedIn(d, u) == \E r \in d.users : r.id = u /\ r.is_subscribed

\* C23: for an authenticated user whose is_subscribed is 0, or who has no
\* users row, every vault operation and certification creation is refused
\* and changes no stored state; they succeed only while is_subscribed is 1.
C23_SubscriberOnly ==
  [][(reply'.handler \in SubscriberOperations
        /\ reply'.user \in sessions /\ ~SubscribedIn(db, reply'.user))
       => (reply'.status \in {403, 404} /\ db' = db /\ bucket' = bucket)]_vars

\* ------------------------------------------------------------------------
\* worker: the Lambda endpoints, one awaited statement at a time
\* ------------------------------------------------------------------------

RiskScores == {20, 80}

AlertTypes == {"drift", "critical"}

\* the bodies a request to a Lambda endpoint can carry
LambdaRequests ==
  { [handler |-> "save-scan", user |-> u, score |-> s, alertType |-> ""] :
      u \in Users, s \in RiskScores }
  \cup { [handler |-> "active-users", user |-> "", score |-> 0, alertType |-> ""] }
  \cup { [handler |-> "send-alert", user |-> u, score |-> 0, alertType |-> a] :
           u \in Users, a \in AlertTypes }

\* the first awaited statement of each endpoint
FirstStatement(handler) ==
  CASE handler = "save-scan" -> "insert scans"
    [] handler = "active-users" -> "select users"
    [] OTHER -> "insert alert"

\* a request ends with status s
Answered(call, s) == [call EXCEPT !.pc = "done", !.status = s]

\* a request arrives: validateLambdaRequest, 401 before anything else
LambdaReceive(i) ==
  /\ lambdaCalls[i].pc = "idle"
  /\ \E req \in LambdaRequests, header \in LambdaSecretHeaders :
       LET call == [lambdaCalls[i] EXCEPT !.handler = req.handler, !.header = header,
                                          !.user = req.user, !.score = req.score,
                                          !.alertType = req.alertType]
       IN  lambdaCalls' =
             [lambdaCalls EXCEPT ![i] =
                IF validateLambdaRequest(header)
                THEN [call EXCEPT !.pc = FirstStatement(req.handler)]
                ELSE Answered(call, 401)]
  /\ UNCHANGED << scanRows, lastRiskScore, alertRows >>
  /\ UNCHANGED << db, bucket, sessions, reply, env, request, outbox, scanApi, nonAcctVars >>

\* handleSaveScan: INSERT INTO scans, or the statement throws
SaveScanInsert(i) ==
  /\ lambdaCalls[i].pc = "insert scans"
  /\ \E throws \in BOOLEAN :
       IF throws
       THEN /\ lambdaCalls' = [lambdaCalls EXCEPT ![i] = Answered(@, 500)]
            /\ UNCHANGED scanRows
       ELSE /\ scanRows' = Append(scanRows, [user_id |-> lambdaCalls[i].user,
                                             risk_score |-> lambdaCalls[i].score])
            /\ lambdaCalls' = [lambdaCalls EXCEPT ![i] =
                 [@ EXCEPT !.pc = "update users", !.writes = @ + 1,
                           !.row = Len(scanRows) + 1]]
  /\ UNCHANGED << lastRiskScore, alertRows >>
  /\ UNCHANGED << db, bucket, sessions, reply, env, request, outbox, scanApi, nonAcctVars >>

\* handleSaveScan: UPDATE users SET last_risk_score, then 200
SaveScanUpdate(i) ==
  /\ lambdaCalls[i].pc = "update users"
  /\ \E throws \in BOOLEAN :
       IF throws
       THEN /\ lambdaCalls' = [lambdaCalls EXCEPT ![i] = Answered(@, 500)]
            /\ UNCHANGED lastRiskScore
       ELSE /\ lastRiskScore' =
                 [lastRiskScore EXCEPT ![lambdaCalls[i].user] =
                    [present |-> TRUE, value |-> lambdaCalls[i].score]]
            /\ lambdaCalls' = [lambdaCalls EXCEPT ![i] =
                 Answered([@ EXCEPT !.writes = @ + 1], 200)]
  /\ UNCHANGED << scanRows, alertRows >>
  /\ UNCHANGED << db, bucket, sessions, reply, env, request, outbox, scanApi, nonAcctVars >>

\* handleGetActiveUsers: the SELECT, then 200, or 500 when it throws
GetActiveUsersSelect(i) ==
  /\ lambdaCalls[i].pc = "select users"
  /\ \E throws \in BOOLEAN :
       lambdaCalls' = [lambdaCalls EXCEPT ![i] =
          IF throws THEN Answered(@, 500)
          ELSE Answered([@ EXCEPT !.reads = @ + 1], 200)]
  /\ UNCHANGED << scanRows, lastRiskScore, alertRows >>
  /\ UNCHANGED << db, bucket, sessions, reply, env, request, outbox, scanApi, nonAcctVars >>

\* handleSendAlert: INSERT INTO compliance_alerts with email_sent 0;
\* triggered_at is the time of the insert
SendAlertInsert(i) ==
  /\ lambdaCalls[i].pc = "insert alert"
  /\ \E throws \in BOOLEAN :
       IF throws
       THEN /\ lambdaCalls' = [lambdaCalls EXCEPT ![i] = Answered(@, 500)]
            /\ UNCHANGED alertRows
       ELSE /\ alertRows' = Append(alertRows,
                 [user_id |-> lambdaCalls[i].user, alert_type |-> lambdaCalls[i].alertType,
                  triggered_at |-> clock, email_sent |-> FALSE])
            /\ lambdaCalls' = [lambdaCalls EXCEPT ![i] =
                 [@ EXCEPT !.pc = "send email", !.writes = @ + 1,
                           !.row = Len(alertRows) + 1]]
  /\ UNCHANGED << scanRows, lastRiskScore >>
  /\ UNCHANGED << db, bucket, sessions, reply, env, request, outbox, scanApi, nonAcctVars >>

\* handleSendAlert: sendComplianceDriftEmail returns response.ok, false when
\* the fetch throws; without emailSent the handler answers 200 at once
SendAlertEmail(i) ==
  /\ lambdaCalls[i].pc = "send email"
  /\ \E ok \in BOOLEAN :
       lambdaCalls' = [lambdaCalls EXCEPT ![i] =
          IF ok
          THEN [@ EXCEPT !.pc = "mark sent", !.emails = @ + 1, !.emailSent = TRUE]
          ELSE Answered(@, 200)]
  /\ UNCHANGED << scanRows, lastRiskScore, alertRows >>
  /\ UNCHANGED << db, bucket, sessions, reply, env, request, outbox, scanApi, nonAcctVars >>

\* SELECT MAX(triggered_at) FROM compliance_alerts WHERE user_id = ?
MaxTriggeredAt(rows, u) ==
  LET times == { rows[k].triggered_at : k \in { n \in 1..Len(rows) : rows[n].user_id = u } }
  IN  CHOOSE t \in times : \A other \in times : other <= t

\* UPDATE compliance_alerts SET email_sent = 1 WHERE user_id = ? AND
\* alert_type = ? AND triggered_at = (SELECT MAX(triggered_at) ...)
MarkSent(rows, u, alertType) ==
  [k \in 1..Len(rows) |->
     IF /\ rows[k].user_id = u
        /\ rows[k].alert_type = alertType
        /\ rows[k].triggered_at = MaxTriggeredAt(rows, u)
     THEN [rows[k] EXCEPT !.email_sent = TRUE]
     ELSE rows[k]]

\* handleSendAlert: the UPDATE that marks the email as sent, then 200
SendAlertMark(i) ==
  /\ lambdaCalls[i].pc = "mark sent"
  /\ \E throws \in BOOLEAN :
       IF throws
       THEN /\ lambdaCalls' = [lambdaCalls EXCEPT ![i] = Answered(@, 500)]
            /\ UNCHANGED alertRows
       ELSE /\ alertRows' = MarkSent(alertRows, lambdaCalls[i].user, lambdaCalls[i].alertType)
            /\ lambdaCalls' = [lambdaCalls EXCEPT ![i] =
                 Answered([@ EXCEPT !.writes = @ + 1], 200)]
  /\ UNCHANGED << scanRows, lastRiskScore >>
  /\ UNCHANGED << db, bucket, sessions, reply, env, request, outbox, scanApi, nonAcctVars >>

InitLambda ==
  /\ ScanIdle
  /\ detIn = NoDetIn
  /\ detOut = NoDetOut
  /\ PairIdle
  /\ clock = 0
  /\ WorkerFresh
  /\ env = FullEnv

NextLambda ==
  \/ \E i \in CallIds :
        \/ LambdaReceive(i)
        \/ SaveScanInsert(i)
        \/ SaveScanUpdate(i)
        \/ GetActiveUsersSelect(i)
        \/ SendAlertInsert(i)
        \/ SendAlertEmail(i)
        \/ SendAlertMark(i)
  \/ Tick

SpecLambda == InitLambda /\ [][NextLambda]_vars

AllAnswered == \A i \in CallIds : lambdaCalls[i].pc = "done"

\* C26: once the handleSendAlert requests have been answered, the row each
\* successful request inserted has email_sent = 1 exactly when the email of
\* that request was sent.
C26_MarkFollowsOwnEmail ==
  AllAnswered =>
    \A i \in CallIds :
       (lambdaCalls[i].handler = "send-alert" /\ lambdaCalls[i].status = 200)
         => (alertRows[lambdaCalls[i].row].email_sent <=> lambdaCalls[i].emailSent)

\* the scans rows of user u, oldest first
ScanRowsOf(u) ==
  { k \in 1..Len(scanRows) : scanRows[k].user_id = u }

\* C29: once concurrent successful handleSaveScan requests for one user have
\* completed, users.last_risk_score is the risk_score of the user's most
\* recently inserted scans row.
C29_LastScoreIsLatestScan ==
  (AllAnswered /\ \A i \in CallIds :
                     lambdaCalls[i].handler = "save-scan" /\ lambdaCalls[i].status = 200)
    => \A u \in Users :
          ScanRowsOf(u) # {}
            => /\ lastRiskScore[u].present
               /\ lastRiskScore[u].value =
                    scanRows[CHOOSE k \in ScanRowsOf(u) :
                               \A other \in ScanRowsOf(u) : other <= k].risk_score

\* C28: when POST /api/sessions has just answered {success: true}, a users
\* row with the id of the signed-in user exists in the database.
C28_SessionSuccessMeansUserRow ==
  (reply.handler = "POST /api/sessions" /\ reply.status = 200)
    => UserRows(reply.user) # {}

\* ------------------------------------------------------------------------
\* worker: POST /api/scan
\* ------------------------------------------------------------------------

S_httpBare == <<"h", "t", "t", "p">>

A_httpbin == <<"h", "t", "t", "p", "b", "i", "n", ".", "o", "r", "g">>
A_trailing == <<"h", "t", "t", "p", "s", ":", "/", "/", "e", "x", "a", "m", "p", "l", "e", ".", "c", "o", "m", " ">>

\* the url fields offered to POST /api/scan; the empty one stands for a
\* missing url as well
ApiUrls ==
  { << >>, T_example, T_httpExample, T_googlePath, T_bang, T_space, T_padded,
    A_httpbin, A_trailing }

\* the bindings POST /api/scan reads, each set or not
ScanBindings ==
  [LAMBDA_SCANNER_ARN : BOOLEAN, AWS_ACCESS_KEY_ID : BOOLEAN,
   AWS_SECRET_ACCESS_KEY : BOOLEAN, AWS_REGION : BOOLEAN]

\* url.startsWith('http') ? url : `https://${url}`
HandlerUrl(u) == IF StartsWith(u, S_httpBare) THEN u ELSE S_https \o u

\* new URL(u) does not throw; the parser strips the spaces around its input
NewUrlParses(u) == UrlParses(Trim(u))

LambdaConfiguredWithRegion(e) ==
  e.LAMBDA_SCANNER_ARN /\ e.AWS_ACCESS_KEY_ID /\ e.AWS_SECRET_ACCESS_KEY /\ e.AWS_REGION

\* c.env.LAMBDA_SCANNER_ARN && c.env.AWS_ACCESS_KEY_ID && c.env.AWS_SECRET_ACCESS_KEY
LambdaConfigured(e) ==
  e.LAMBDA_SCANNER_ARN /\ e.AWS_ACCESS_KEY_ID /\ e.AWS_SECRET_ACCESS_KEY

\* the handler answers
ScanApiAnswer(s, status, message, success, riskScore) ==
  [s EXCEPT !.pc = "done",
            !.response = [status |-> status, error |-> message, success |-> success,
                          riskScore |-> riskScore]]

\* the request arrives: body, url check, then the scan is handed to Lambda
\* or to the local analyzeUrl
ScanApiReceive ==
  /\ scanApi.pc = "idle"
  /\ \E json \in BOOLEAN, u \in ApiUrls, e \in ScanBindings :
       LET s == [scanApi EXCEPT !.json = json, !.url = u, !.env = e]
       IN  scanApi' =
             IF ~json THEN ScanApiAnswer(s, 500, "Failed to scan URL", FALSE, 64)
             ELSE IF u = << >> THEN ScanApiAnswer(s, 400, "URL is required", FALSE, 0)
             ELSE IF ~NewUrlParses(HandlerUrl(u))
             THEN ScanApiAnswer(s, 400, "Invalid URL format", FALSE, 0)
             ELSE IF LambdaConfigured(e)
             THEN [s EXCEPT !.pc = "lambda", !.accepted = TRUE,
                            !.validated = HandlerUrl(u), !.lambdaInvocations = @ + 1]
             ELSE [s EXCEPT !.pc = "local", !.accepted = TRUE,
                            !.validated = HandlerUrl(u), !.analyzeUrlCalls = @ + 1]
  /\ UNCHANGED << db, bucket, sessions, reply, env, request, outbox, lambdaVars, nonAcctVars >>

\* how invokeLambda can end
LambdaOutcomes == {"result", "not ok", "fetch throws", "body is not JSON"}

\* invokeLambda returns the result of the function, or throws
ScanApiLambdaReturns ==
  /\ scanApi.pc = "lambda"
  /\ \E outcome \in LambdaOutcomes, score \in RiskScores :
       scanApi' =
         IF outcome = "result"
         THEN ScanApiAnswer([scanApi EXCEPT !.lambdaOutcome = outcome], 200, "", TRUE, score)
         ELSE ScanApiAnswer([scanApi EXCEPT !.lambdaOutcome = outcome], 500,
                            "Lambda scan failed", FALSE, 0)
  /\ UNCHANGED << db, bucket, sessions, reply, env, request, outbox, lambdaVars, nonAcctVars >>

\* the local analyzeUrl returns its result, which has success false when the
\* scanner rejects the url
ScanApiLocalReturns ==
  /\ scanApi.pc = "local"
  /\ \E score \in RiskScores :
       scanApi' =
         IF UrlParses(NormalizeUrl(scanApi.url))
         THEN ScanApiAnswer(scanApi, 200, "", TRUE, score)
         ELSE ScanApiAnswer(scanApi, 200, "", FALSE, 0)
  /\ UNCHANGED << db, bucket, sessions, reply, env, request, outbox, lambdaVars, nonAcctVars >>

NextScanApi ==
  \/ ScanApiReceive
  \/ ScanApiLambdaReturns
  \/ ScanApiLocalReturns

SpecScanApi == InitLambda /\ [][NextScanApi]_vars

\* the request found the Lambda scanner ARN and both AWS credentials set
ScannerArnAndCredentialsSet ==
  /\ scanApi.env.LAMBDA_SCANNER_ARN
  /\ scanApi.env.AWS_ACCESS_KEY_ID
  /\ scanApi.env.AWS_SECRET_ACCESS_KEY

\* C27: with the Lambda scanner ARN and the AWS credentials configured, a scan
\* that passed the url check is delegated to Lambda exactly once, the local
\* analyzeUrl is never called, and a failed invocation is answered 500 with
\* success false.
C27_LambdaOnlyMode ==
  (scanApi.pc # "idle" /\ ScannerArnAndCredentialsSet)
    => /\ scanApi.analyzeUrlCalls = 0
       /\ scanApi.lambdaInvocations = (IF scanApi.accepted THEN 1 ELSE 0)
       /\ (scanApi.pc = "done" /\ scanApi.lambdaOutcome \in LambdaOutcomes \ {"result"})
            => /\ scanApi.response.status = 500
               /\ ~scanApi.response.success

\* a delegated scan failed in Lambda and was answered
C27_Witness ==
  /\ scanApi.pc = "done"
  /\ ScannerArnAndCredentialsSet
  /\ ~scanApi.env.AWS_REGION
  /\ scanApi.lambdaInvocations = 1
  /\ scanApi.lambdaOutcome = "not ok"

\* C30: for a url given to POST /api/scan, the handler answers 400 "Invalid
\* URL format" exactly when analyzeUrl rejects the url as invalid, and the url
\* it validates and forwards is the one analyzeUrl normalizes the input to.
C30_HandlerAgreesWithScanner ==
  (scanApi.pc # "idle" /\ scanApi.json /\ scanApi.url # << >>)
    => /\ (scanApi.response.status = 400 /\ scanApi.response.error = "Invalid URL format")
            <=> ~UrlParses(NormalizeUrl(scanApi.url))
       /\ scanApi.accepted => scanApi.validated = NormalizeUrl(scanApi.url)

====
